---- MODULE Spec2Model ----
(***************************************************************************)
(* Model of src/utils/lua_dependency.py: the dependency closure walk       *)
(* (extract_dependencies) and the bundler (get_target_code,                *)
(* parse_transmitting_dependency, generate_new_combine_lua, write_files).  *)
(*                                                                         *)
(* Encoding of strings.  A dotted name "a.b.c" is the sequence of its      *)
(* segments <<"a","b","c">>; '.' in s is Len(s) > 1 and s.split('.')[k]    *)
(* is s[k+1].  An index key f'{stem}.lua' is the pair <<stem, "lua">>.     *)
(***************************************************************************)
EXTENDS Integers, Sequences, FiniteSets, TLC

VARIABLES
    index,          \* dependencies_obj: key -> list of <<alias, dotted path>>
    start,          \* extract_dependencies: the argument `unique`
    q,              \* extract_dependencies: queue.Queue() contents
    dependencies,   \* extract_dependencies: the result list
    wpc,            \* extract_dependencies: "idle" | "call" | "walk" | "done"
    overflow,       \* TRUE once the walk grew past MaxDeps / MaxQueue
    untracked,      \* parity of the number of appends past MaxDeps
    fs,             \* the files on disk: path -> text (DOMAIN fs: what exists)
    dirs,           \* the directories on disk (of module paths)
    indexFile,      \* the persisted index: <<>> when missing, else the JSON
                    \* documents its text holds, one after the other
    pc,             \* get_target_code: position of the current invocation
    runs,           \* invocations of get_target_code started so far
    code_content,   \* get_target_code: the target's text (line 247)
    extract_depen_obj, \* get_target_code: ordered dict path -> list of names
    entry_i,        \* get_target_code: position in dependencies_array
    unique_functions,  \* get_target_code: references still to resolve
    call,           \* one application of a text function: arguments, result
    scan,           \* generate_dependency_json: outcome of the latest scan
    procs,          \* concurrent invocations of get_target_code: their locals
    srv             \* start_server: its position, locals and sockets

walkVars == <<index, start, q, dependencies, wpc, overflow, untracked>>

diskVars == <<fs, dirs, indexFile>>

bundleVars == <<pc, runs, code_content, extract_depen_obj, entry_i,
                unique_functions>>

\* the state of the text functions, of the scanner, of the concurrent
\* invocations and of start_server, which the walk and a single bundler run
\* leave alone
otherVars == <<call, scan, procs, srv>>

vars == <<index, start, q, dependencies, wpc, overflow, untracked, fs, dirs,
          indexFile,
          pc, runs, code_content, extract_depen_obj, entry_i,
          unique_functions, call, scan, procs, srv>>

----------------------------------------------------------------------------
(* Bounds of the model *)

\* entries of `dependencies` that are tracked; later appends set overflow
MaxDeps == 7
\* entries of the queue that are tracked; later puts set overflow
MaxQueue == 4
\* invocations of get_target_code in one behaviour
MaxRuns == 2
\* lines of the texts the text functions are applied to
MaxLines == 2
\* calls of generate_dependency_json in one behaviour
MaxScans == 2
\* results of recv the client side provides to one call of start_server
MaxMsgs == 3
\* times bind finds the address in use in one call of start_server
MaxBinds == 2

----------------------------------------------------------------------------
(* Generic helpers *)

Range(s) == {s[i] : i \in 1..Len(s)}

NoDup(s) == \A i, j \in 1..Len(s) : i # j => s[i] # s[j]

\* f'{stem}.lua'
LuaName(stem) == <<stem, "lua">>

----------------------------------------------------------------------------
(* extract_dependencies *)

\* unique.split('.')[1] if '.' in unique else unique
Seed(unique) == IF Len(unique) > 1 THEN unique[2] ELSE unique[1]

\* mutant: only the first require of a module is followed
AliasesFirstOnly(idx, key) == <<idx[key][1][1]>>

\* [value[0] for value in dependencies_obj[key]]
Aliases(idx, key) == [i \in 1..Len(idx[key]) |-> idx[key][i][1]]

\* dependencies.append(temp), tracked up to MaxDeps entries
AppendDep(deps, temp) == IF Len(deps) < MaxDeps THEN Append(deps, temp) ELSE deps

\* mutant: the names are put at the front of the queue (a stack)
PutAllFront(queue, items) ==
    LET all == items \o queue
    IN  IF Len(all) <= MaxQueue THEN all ELSE SubSeq(all, 1, MaxQueue)

\* q.put(value[0]) for each value, tracked up to MaxQueue entries
PutAll(queue, items) ==
    LET all == queue \o items
    IN  IF Len(all) <= MaxQueue THEN all ELSE SubSeq(all, 1, MaxQueue)

\* lines 110-114: dependencies = []; q = Queue(); q.put(seed)
WalkBegin ==
    /\ wpc = "call"
    /\ dependencies' = <<>>
    /\ q' = <<Seed(start)>>
    /\ overflow' = FALSE
    /\ untracked' = 0
    /\ wpc' = "walk"
    /\ UNCHANGED <<index, start, diskVars, bundleVars>>
    /\ UNCHANGED otherVars

\* mutant: a name without index entry is recorded too
WalkStepRecordLeaves ==
    /\ wpc = "walk"
    /\ q # <<>>
    /\ LET temp == Head(q)
           key  == LuaName(temp)
       IN  IF key \in DOMAIN index
           THEN /\ dependencies' = AppendDep(dependencies, temp)
                /\ q' = PutAll(Tail(q), Aliases(index, key))
                /\ overflow' = (overflow
                                \/ Len(dependencies) >= MaxDeps
                                \/ Len(Tail(q)) + Len(index[key]) > MaxQueue)
                /\ untracked' = IF Len(dependencies) >= MaxDeps
                                THEN 1 - untracked ELSE untracked
           ELSE /\ q' = Tail(q)
                /\ dependencies' = AppendDep(dependencies, temp)
                /\ UNCHANGED <<overflow, untracked>>
    /\ UNCHANGED <<index, start, wpc, diskVars, bundleVars>>
    /\ UNCHANGED otherVars

\* lines 116-122: one iteration of `while not q.empty()`
WalkStep ==
    /\ wpc = "walk"
    /\ q # <<>>
    /\ LET temp == Head(q)
           key  == LuaName(temp)
       IN  IF key \in DOMAIN index
           THEN /\ dependencies' = AppendDep(dependencies, temp)
                /\ q' = PutAll(Tail(q), Aliases(index, key))
                /\ overflow' = (overflow
                                \/ Len(dependencies) >= MaxDeps
                                \/ Len(Tail(q)) + Len(index[key]) > MaxQueue)
                /\ untracked' = IF Len(dependencies) >= MaxDeps
                                THEN 1 - untracked ELSE untracked
           ELSE /\ q' = Tail(q)
                /\ UNCHANGED <<dependencies, overflow, untracked>>
    /\ UNCHANGED <<index, start, wpc, diskVars, bundleVars>>
    /\ UNCHANGED otherVars

\* line 124: return dependencies
WalkReturn ==
    /\ wpc = "walk"
    /\ q = <<>>
    /\ wpc' = "done"
    /\ UNCHANGED <<index, start, q, dependencies, overflow, untracked,
                   diskVars, bundleVars>>
    /\ UNCHANGED otherVars

----------------------------------------------------------------------------
(* The require graph of an index *)

\* modules whose alias is listed in the entry of module m
Requires(idx, m) ==
    IF LuaName(m) \in DOMAIN idx
    THEN {idx[LuaName(m)][i][1] : i \in 1..Len(idx[LuaName(m)])}
    ELSE {}

RECURSIVE ReachFrom(_, _)
\* least set containing S and closed under Requires
ReachFrom(idx, S) ==
    LET T == S \cup UNION {Requires(idx, m) : m \in S}
    IN  IF T = S THEN S ELSE ReachFrom(idx, T)

\* modules with an index entry (the nodes the walk records)
Keyed(idx, S) == {m \in S : LuaName(m) \in DOMAIN idx}

\* m lies on a cycle of the require graph
OnCycle(idx, m) ==
    /\ LuaName(m) \in DOMAIN idx
    /\ m \in ReachFrom(idx, Requires(idx, m))

HasCycle(idx) == \E k \in DOMAIN idx : OnCycle(idx, k[1])

----------------------------------------------------------------------------
(* Source text.  A text is a sequence of tokens: identifiers/keywords       *)
(* (maximal runs of [\w_]), single punctuation characters and "\n".  Blanks *)
(* other than newlines are not tokens: two adjacent word tokens stand for   *)
(* two words separated by blanks.  A regular expression that is not         *)
(* anchored on the left may match inside a word; EndsWith / StartsWith      *)
(* tabulate that for the identifiers of the model.                          *)

Punct == {".", "=", "(", ")", "\n", "\"", "'", ",", "--"}

IsWord(tok) == tok \notin Punct /\ tok # ""

\* <<word, proper suffix of it, the prefix that remains>>
SuffixTable == {<<"foo_utils", "utils", "foo_">>, <<"xm", "m", "x">>}

\* <<prefix, word, prefix + word>>
ConcatTable == {<<"foo_", "foo_utils", "foo_foo_utils">>, <<"x", "m", "xm">>}

\* word w ends with the characters of word s
EndsWith(w, s) == w = s \/ \E t \in SuffixTable : t[1] = w /\ t[2] = s

\* identifiers that contain the characters "_utils"
UtilsWords == {"foo_utils", "get_utils", "foo_foo_utils"}

Min(S) == CHOOSE x \in S : \A y \in S : x <= y

\* code[i], or "" past either end
Tok(code, i) == IF i \in 1..Len(code) THEN code[i] ELSE ""

\* first position >= i that holds no newline: the end of a greedy \s*
SkipNL(code, i) == Min({j \in i..(Len(code) + 1) : Tok(code, j) # "\n"})

RECURSIVE NameToks(_)
\* the tokens of the dotted name: "a.b" is a . b
NameToks(name) ==
    IF Len(name) <= 1 THEN name
    ELSE <<name[1], ".">> \o NameToks(Tail(name))

RECURSIVE FindFrom(_, _, _)
\* re.findall(rf'{re.escape(module_name)}\.[\w_]+', lua_code) from position i:
\* leftmost matches, not overlapping, each reported as the matched text
FindFrom(code, alias, i) ==
    IF i + 2 > Len(code) THEN <<>>
    ELSE IF /\ IsWord(code[i]) /\ EndsWith(code[i], alias)
            /\ code[i + 1] = "."
            /\ IsWord(code[i + 2])
         THEN <<(<<alias, code[i + 2]>>)>> \o FindFrom(code, alias, i + 3)
         ELSE FindFrom(code, alias, i + 1)

\* mutant: only the first match is reported
FindFirstOnly(lua_code, module_name) ==
    LET all == FindFrom(lua_code, module_name, 1)
    IN  IF Len(all) = 0 THEN <<>> ELSE <<all[1]>>

\* find_references(lua_code, module_name)
find_references(lua_code, module_name) == FindFrom(lua_code, module_name, 1)

\* mutant: a greedy body, which runs to the last line `end` of the text
BlockEndLast(code, p) ==
    LET n == Len(code)
        Ends(j) == {e \in (j + 2)..n :
                       /\ code[e] = "end"
                       /\ code[e - 1] = "\n"
                       /\ (e = n \/ code[e + 1] = "\n")}
        Closes == {j \in (p + 1)..n :
                       /\ code[j] = ")"
                       /\ Tok(code, j + 1) = "\n"
                       /\ Ends(j) # {}}
    IN  IF Tok(code, p) # "(" \/ Closes = {} THEN 0
        ELSE LET e == CHOOSE x \in Ends(Min(Closes)) :
                          \A y \in Ends(Min(Closes)) : y <= x
                 r == SkipNL(code, e + 1) - 1
             IN  IF r = n THEN r ELSE IF r > e THEN r - 1 ELSE e

\* `\(.*?\)\s*\n(.*?)^end\s*$` from position p (MULTILINE | DOTALL): the
\* position of the last token matched, 0 when there is no match
BlockEnd(code, p) ==
    LET n == Len(code)
        Ends(j) == {e \in (j + 2)..n :
                       /\ code[e] = "end"
                       /\ code[e - 1] = "\n"
                       /\ (e = n \/ code[e + 1] = "\n")}
        Closes == {j \in (p + 1)..n :
                       /\ code[j] = ")"
                       /\ Tok(code, j + 1) = "\n"
                       /\ Ends(j) # {}}
    IN  IF Tok(code, p) # "(" \/ Closes = {} THEN 0
        ELSE LET e == Min(Ends(Min(Closes)))
                 r == SkipNL(code, e + 1) - 1
             IN  IF r = n THEN r ELSE IF r > e THEN r - 1 ELSE e

\* pattern   = rf"{name}\s*=\s*function\s*\(.*?\)\s*\n(.*?)^end\s*$" at i
AssignEnd(code, nt, i) ==
    LET k  == Len(nt)
        p1 == SkipNL(code, i + k)
        p2 == SkipNL(code, p1 + 1)
    IN  IF /\ i + k - 1 <= Len(code)
           /\ EndsWith(code[i], nt[1])
           /\ \A x \in 2..k : code[i + x - 1] = nt[x]
           /\ Tok(code, p1) = "="
           /\ Tok(code, p2) = "function"
        THEN BlockEnd(code, SkipNL(code, p2 + 1))
        ELSE 0

\* pattern_1 = rf"function\s+{name}\s*\(.*?\)\s*\n(.*?)^end\s*$" at i
DeclEnd(code, nt, i) ==
    LET k == Len(nt)
        p == SkipNL(code, i + 1)
    IN  IF /\ code[i] = "function"
           /\ p + k - 1 <= Len(code)
           /\ \A x \in 1..k : code[p + x - 1] = nt[x]
        THEN BlockEnd(code, SkipNL(code, p + k))
        ELSE 0

NotFound == <<"<None>">>

\* mutant: the declaration form is tried first
ExtractDeclFirst(lua_code, function_name) ==
    LET nt == NameToks(function_name)
        A  == {i \in 1..Len(lua_code) : AssignEnd(lua_code, nt, i) # 0}
        B  == {i \in 1..Len(lua_code) : DeclEnd(lua_code, nt, i) # 0}
    IN  IF B # {}
        THEN LET i == Min(B)
             IN  SubSeq(lua_code, i, DeclEnd(lua_code, nt, i))
        ELSE IF A # {}
        THEN LET i == Min(A)
             IN  nt \o SubSeq(lua_code, i + Len(nt), AssignEnd(lua_code, nt, i))
        ELSE NotFound

\* extract_function_block(lua_code, function_name): match.group(0) of the
\* leftmost match of pattern, else of pattern_1, else None
extract_function_block(lua_code, function_name) ==
    LET nt == NameToks(function_name)
        A  == {i \in 1..Len(lua_code) : AssignEnd(lua_code, nt, i) # 0}
        B  == {i \in 1..Len(lua_code) : DeclEnd(lua_code, nt, i) # 0}
    IN  IF A # {}
        THEN LET i == Min(A)
             IN  nt \o SubSeq(lua_code, i + Len(nt), AssignEnd(lua_code, nt, i))
        ELSE IF B # {}
        THEN LET i == Min(B)
             IN  SubSeq(lua_code, i, DeclEnd(lua_code, nt, i))
        ELSE NotFound

\* ["\']
Quotes == {"\"", "'"}

\* [\w\.]+ from position i: the position of its last token, i - 1 when it
\* matches nothing (two adjacent word tokens are separated by a blank)
PathEnd(code, i) ==
    LET InPath(j) == /\ IsWord(Tok(code, j)) \/ Tok(code, j) = "."
                     /\ j > i => ~(IsWord(code[j - 1]) /\ IsWord(code[j]))
    IN  Min({j \in (i - 1)..Len(code) : ~InPath(j + 1)})

\* local\s+(\w+)\s*=\s*require\s*["\']([\w\.]+)["\'] at position i: the
\* positions of the alias, of the first and last token of the path and of
\* the closing quote; <<>> when the pattern does not match at i
RequireAt(code, i) ==
    LET a  == SkipNL(code, i + 1)
        e  == SkipNL(code, a + 1)
        r  == SkipNL(code, e + 1)
        qo == SkipNL(code, r + 1)
        pe == PathEnd(code, qo + 1)
    IN  IF /\ IsWord(Tok(code, i)) /\ EndsWith(code[i], "local")
           /\ IsWord(Tok(code, a))
           /\ Tok(code, e) = "="
           /\ Tok(code, r) = "require"
           /\ Tok(code, qo) \in Quotes
           /\ pe > qo
           /\ Tok(code, pe + 1) \in Quotes
        THEN <<a, qo + 1, pe, pe + 1>>
        ELSE <<>>

\* the dotted path spelled by the tokens code[from..to]
PathOf(code, from, to) ==
    LET words == {j \in from..to : code[j] # "."}
        Nth(k) == CHOOSE j \in words : Cardinality({x \in words : x < j}) = k - 1
    IN  [k \in 1..Cardinality(words) |-> code[Nth(k)]]

RECURSIVE RequiresFrom(_, _)
\* re.findall(pattern, lua_code) from position i: the (alias, path) groups of
\* the leftmost matches, not overlapping
RequiresFrom(code, i) ==
    IF i > Len(code) THEN <<>>
    ELSE LET mt == RequireAt(code, i)
         IN  IF mt # <<>>
             THEN <<(<<code[mt[1]], PathOf(code, mt[2], mt[3])>>)>>
                  \o RequiresFrom(code, mt[4] + 1)
             ELSE RequiresFrom(code, i + 1)

\* extract_local_requirements(lua_code)
extract_local_requirements(lua_code) == RequiresFrom(lua_code, 1)

----------------------------------------------------------------------------
(* Ordered dicts, as sequences of <<key, value>> in insertion order *)

HasKey(d, k) == \E i \in 1..Len(d) : d[i][1] = k

Get(d, k) == d[CHOOSE i \in 1..Len(d) : d[i][1] = k][2]

\* d[k] = v: a present key keeps its position, a new one goes last
Put(d, k, v) ==
    IF HasKey(d, k)
    THEN [i \in 1..Len(d) |-> IF d[i][1] = k THEN <<k, v>> ELSE d[i]]
    ELSE Append(d, <<k, v>>)

\* the orders list(set(...)) can give the elements of S
SeqsOf(S) == {s \in [1..Cardinality(S) -> S] : Range(s) = S}

----------------------------------------------------------------------------
(* Paths.  The path of f'{parent_folder}/a/b.lua' is <<"a","b">>; the      *)
(* directory f'{parent_folder}/a/b' is <<"a","b">> in dirs.                *)

sub_folder == "app"

\* the target's file name is f'{filename_stem}.lua'
filename_stem == "t"

filename == LuaName(filename_stem)

\* f'{parent_folder}/{sub_folder}/{filename}'
Destination == <<sub_folder, filename_stem>>

\* f'{filename.split(".")[0]}_new': the stem of the output file
NewStem(stem) ==
    IF stem = "t" THEN "t_new" ELSE IF stem = "o" THEN "o_new" ELSE "other_new"

\* mutant: the bundle is written over the target
WriteOverTarget == Destination

\* f'{parent_folder}/{sub_folder}/{filename.split(".")[0]}_new.lua'
WritePath == <<sub_folder, NewStem(filename_stem)>>

\* lines 254-266: the file of a directly resolved (leaf) reference
LeafFile(ds, reference) ==
    IF reference \in ds THEN Append(reference, "init") ELSE reference

\* lines 273-274: f'{parent_folder}/{reference.replace(".", "/")}/{member}.lua'
ComboFile(reference, unique) == Append(reference, unique[2])

----------------------------------------------------------------------------
(* read_lua_file, write_files *)

\* what read_lua_file gives when open() or read() raises (FileNotFoundError,
\* UnicodeDecodeError)
Raise == <<"<FileNotFoundError>">>

\* the content of a file whose bytes are not UTF-8 text
NotText == <<"<bytes that are not UTF-8>">>

\* mutant: a missing file reads as the empty text
ReadOrEmpty(files, file_path) ==
    IF file_path \in DOMAIN files THEN files[file_path] ELSE <<>>

\* open(file_path, 'r').read()
read_lua_file(files, file_path) ==
    IF file_path \in DOMAIN files /\ files[file_path] # NotText
    THEN files[file_path]
    ELSE Raise

\* mutant: the file is opened with mode "w"
OverwriteFile(files, file_path, content) ==
    [p \in DOMAIN files \cup {file_path} |->
        IF p = file_path THEN content ELSE files[p]]

\* open(file_path, "a").write(content)
write_files(files, file_path, content) ==
    IF file_path \in DOMAIN files
    THEN [files EXCEPT ![file_path] = @ \o content]
    ELSE [p \in DOMAIN files \cup {file_path} |->
             IF p = file_path THEN content ELSE files[p]]

----------------------------------------------------------------------------
(* parse_transmitting_dependency *)

RECURSIVE ValuesOf(_, _)
\* the (alias, folder) pairs visited by the two nested loops, in order
ValuesOf(idx, depen_dic) ==
    IF depen_dic = <<>> THEN <<>>
    ELSE LET key == LuaName(Head(depen_dic))
         IN  (IF key \in DOMAIN idx THEN idx[key] ELSE <<>>)
             \o ValuesOf(idx, Tail(depen_dic))

RECURSIVE Transmit(_, _, _, _, _)
\* lines 149-167 for values[i..]: return_obj maps a file to the SET of the
\* references found in it (list(set(...)): the order is not determined);
\* raised: read_lua_file at line 156 found no file
Transmit(files, idx, values, i, return_obj) ==
    IF i > Len(values) THEN [raised |-> FALSE, obj |-> return_obj]
    ELSE LET unique == values[i][1]
             target_lua_file == values[i][2]
             code == read_lua_file(files, target_lua_file)
             found == Range(find_references(code, unique))
         IN  IF LuaName(unique) \in DOMAIN idx
             THEN IF code = Raise
                  THEN [raised |-> TRUE, obj |-> return_obj]
                  ELSE Transmit(files, idx, values, i + 1,
                                Put(return_obj, target_lua_file, found))
             ELSE IF target_lua_file \in DOMAIN files
                  THEN Transmit(files, idx, values, i + 1,
                                Put(return_obj, target_lua_file, found))
                  ELSE Transmit(files, idx, values, i + 1, return_obj)

parse_transmitting_dependency(files, depen_dic, idx) ==
    Transmit(files, idx, ValuesOf(idx, depen_dic), 1, <<>>)

\* the lists return_obj can hold: one order for each file's set
ListsOf(obj) ==
    LET all == UNION {SeqsOf(obj[i][2]) : i \in 1..Len(obj)}
    IN  {o \in [1..Len(obj) -> all] :
            \A i \in 1..Len(obj) : o[i] \in SeqsOf(obj[i][2])}

RECURSIVE AppendNew(_, _)
\* lines 283-285: append the values not yet in the list
AppendNew(list, values) ==
    IF values = <<>> THEN list
    ELSE AppendNew(IF Head(values) \in Range(list) THEN list
                   ELSE Append(list, Head(values)),
                   Tail(values))

RECURSIVE Merge(_, _, _, _)
\* lines 278-285 for the keys obj[i..], lists[i] being the list of obj[i]
Merge(extract, obj, lists, i) ==
    IF i > Len(obj) THEN extract
    ELSE LET key == obj[i][1]
         IN  Merge(IF ~HasKey(extract, key)
                   THEN Put(extract, key, lists[i])
                   ELSE Put(extract, key, AppendNew(Get(extract, key), lists[i])),
                   obj, lists, i + 1)

----------------------------------------------------------------------------
(* generate_new_combine_lua *)

BeginMark == "------------------import functions begin------------------"
EndMark == "------------------import functions end------------------"

\* '_utils' in func
HasUtils(func) == \E i \in 1..Len(func) : func[i] \in UtilsWords

\* lines 200-202
TempFunc(func) == IF HasUtils(func) THEN <<"utils", func[2]>> ELSE func

\* the word w with its ending `old` replaced by `new`
Glue(w, old, new) ==
    IF w = old THEN new
    ELSE LET pre == (CHOOSE t \in SuffixTable : t[1] = w /\ t[2] = old)[3]
         IN  (CHOOSE c \in ConcatTable : c[1] = pre /\ c[2] = new)[3]

RECURSIVE ReplaceFrom(_, _, _, _)
\* str.replace(temp_func, func) from token i on, for two-segment names
\* with the same member
ReplaceFrom(block, temp_func, func, i) ==
    IF i > Len(block) THEN <<>>
    ELSE IF /\ i + 2 <= Len(block)
            /\ EndsWith(block[i], temp_func[1])
            /\ block[i + 1] = "."
            /\ block[i + 2] = temp_func[2]
         THEN <<Glue(block[i], temp_func[1], func[1]), ".", block[i + 2]>>
              \o ReplaceFrom(block, temp_func, func, i + 3)
         ELSE <<block[i]>> \o ReplaceFrom(block, temp_func, func, i + 1)

\* extract_function.replace(temp_func, func)
ReplaceName(block, temp_func, func) ==
    IF temp_func = func THEN block ELSE ReplaceFrom(block, temp_func, func, 1)

RECURSIVE FileBlocksStopAtMiss(_, _)
\* mutant: the loop over the functions of a file ends at the first name
\* that has no definition
FileBlocksStopAtMiss(content, functions) ==
    IF functions = <<>> THEN <<>>
    ELSE LET func == Head(functions)
             temp_func == TempFunc(func)
             extract_function == extract_function_block(content, temp_func)
         IN  IF extract_function = NotFound THEN <<>>
             ELSE <<"\n">> \o ReplaceName(extract_function, temp_func, func)
                  \o FileBlocksStopAtMiss(content, Tail(functions))

RECURSIVE FileBlocks(_, _)
\* lines 199-207: what one file adds to combine_code
FileBlocks(content, functions) ==
    IF functions = <<>> THEN <<>>
    ELSE LET func == Head(functions)
             temp_func == TempFunc(func)
             extract_function == extract_function_block(content, temp_func)
         IN  (IF extract_function # NotFound
              THEN <<"\n">> \o ReplaceName(extract_function, temp_func, func)
              ELSE <<>>)
             \o FileBlocks(content, Tail(functions))

RECURSIVE CombineCode(_, _)
\* lines 190-207: combine_code
CombineCode(files, extract) ==
    IF extract = <<>> THEN <<>>
    ELSE LET key == Head(extract)[1]
         IN  (IF key \notin DOMAIN files THEN <<>>
              ELSE FileBlocks(read_lua_file(files, key), Head(extract)[2]))
             \o CombineCode(files, Tail(extract))

\* mutant: the target's source first, the delimited blocks after it
WriteCodeSourceFirst(combine_code, original_code) ==
    <<"\n">> \o original_code
    \o <<"\n", BeginMark, "\n", "\n">> \o combine_code
    \o <<"\n", "\n", EndMark, "\n", "\n", "\n">>

\* lines 209-215: write_code
WriteCode(combine_code, original_code) ==
    <<"\n", BeginMark, "\n", "\n">> \o combine_code
    \o <<"\n", "\n", EndMark, "\n", "\n", "\n">> \o original_code \o <<"\n">>

----------------------------------------------------------------------------
(* get_target_code *)

\* json.dumps(obj): the text of one JSON document
json_dumps(obj) == <<obj>>

\* mutant: a parser that reads the first document and ignores what follows
LoadableFirst(content) == Len(content) >= 1

\* json.loads(content) raises no JSONDecodeError: the text is one document
Loadable(content) == Len(content) = 1

\* json.loads(content) for a text that is one document
json_loads(content) == content[1]

\* dependencies_array = dependencies_obj[filename] (line 245, reached only
\* with filename among the keys)
dependencies_array == IF filename \in DOMAIN index THEN index[filename] ELSE <<>>

\* mutant: a target without an entry is bundled with no dependencies
AfterLoadNoReturn(idx) == "read"

\* lines 241-245: return when the target has no entry
AfterLoad(idx) == IF filename \notin DOMAIN idx THEN "returned" ELSE "read"

\* the (module, reference) pair of the current iteration of line 250
CurModule == dependencies_array[entry_i][1]
CurReference == dependencies_array[entry_i][2]

\* a call of get_target_code(parent_folder, sub_folder, filename, index file)
Invoke ==
    /\ pc \in {"idle", "returned", "raised", "written"}
    /\ runs < MaxRuns
    /\ runs' = runs + 1
    /\ pc' = "load"
    /\ index' = <<>>
    /\ code_content' = <<>>
    /\ extract_depen_obj' = <<>>
    /\ entry_i' = 0
    /\ unique_functions' = <<>>
    /\ UNCHANGED <<start, q, dependencies, wpc, overflow, untracked, diskVars>>
    /\ UNCHANGED otherVars

\* lines 238-245: load the index; return when the target has no entry
LoadIndex ==
    /\ pc = "load"
    /\ IF indexFile = <<>> \/ ~Loadable(indexFile)
       THEN /\ pc' = "raised"
            /\ UNCHANGED index
       ELSE /\ index' = json_loads(indexFile)
            /\ pc' = AfterLoad(json_loads(indexFile))
    /\ UNCHANGED <<start, q, dependencies, wpc, overflow, untracked, diskVars, runs,
                   code_content, extract_depen_obj, entry_i, unique_functions>>
    /\ UNCHANGED otherVars

\* lines 247-248: read the target
ReadTarget ==
    /\ pc = "read"
    /\ IF read_lua_file(fs, Destination) = Raise
       THEN /\ pc' = "raised"
            /\ UNCHANGED code_content
       ELSE /\ code_content' = read_lua_file(fs, Destination)
            /\ pc' = "entries"
    /\ extract_depen_obj' = <<>>
    /\ UNCHANGED <<walkVars, diskVars, runs, entry_i, unique_functions>>
    /\ UNCHANGED otherVars

\* lines 250-257: the next (module, reference) of dependencies_array, or the
\* end of the loop and the call of generate_new_combine_lua (line 287)
NextEntry ==
    /\ pc = "entries"
    /\ IF entry_i = Len(dependencies_array)
       THEN /\ pc' = "generate"
            /\ UNCHANGED <<entry_i, unique_functions>>
       ELSE /\ entry_i' = entry_i + 1
            /\ \E order \in SeqsOf(Range(find_references(
                       code_content, dependencies_array[entry_i + 1][1]))) :
                  /\ unique_functions' = order
                  /\ pc' = IF order = <<>> THEN "entries" ELSE "uniques"
    /\ UNCHANGED <<walkVars, diskVars, runs, code_content, extract_depen_obj>>
    /\ UNCHANGED otherVars

\* line 260: depen_dic = extract_dependencies(unique, dependencies_obj)
CallClosure ==
    /\ pc = "uniques"
    /\ start' = Head(unique_functions)
    /\ wpc' = "call"
    /\ pc' = "closure"
    /\ UNCHANGED <<index, q, dependencies, overflow, untracked, diskVars, runs,
                   code_content, extract_depen_obj, entry_i, unique_functions>>
    /\ UNCHANGED otherVars

\* lines 262-271 on the map `extract`: the reference is resolved directly
LeafInto(extract, reference, unique) ==
    LET target_lua_file == LeafFile(dirs, reference)
    IN  IF ~HasKey(extract, target_lua_file)
        THEN Put(extract, target_lua_file, <<unique>>)
        ELSE Put(extract, target_lua_file,
                 Append(Get(extract, target_lua_file), unique))

\* lines 262-271: an empty closure, the reference is resolved directly
ResolveLeaf(unique) == LeafInto(extract_depen_obj, CurReference, unique)

\* lines 273-275: the entry of the reference's own file
ResolveCombo(unique) ==
    Put(extract_depen_obj, ComboFile(CurReference, unique), <<>>)

\* lines 262-285, after extract_dependencies has returned
Resolve ==
    /\ pc = "closure"
    /\ wpc = "done"
    /\ ~overflow
    /\ LET unique == Head(unique_functions)
           depen_dic == dependencies
           ret == parse_transmitting_dependency(fs, depen_dic, index)
           rest == Tail(unique_functions)
           next == IF rest = <<>> THEN "entries" ELSE "uniques"
       IN  IF Len(depen_dic) <= 0
           THEN /\ extract_depen_obj' = ResolveLeaf(unique)
                /\ unique_functions' = rest
                /\ pc' = next
           ELSE IF ret.raised
           THEN /\ extract_depen_obj' = ResolveCombo(unique)
                /\ pc' = "raised"
                /\ UNCHANGED unique_functions
           ELSE /\ \E lists \in ListsOf(ret.obj) :
                      extract_depen_obj' =
                          Merge(ResolveCombo(unique), ret.obj, lists, 1)
                /\ unique_functions' = rest
                /\ pc' = next
    /\ wpc' = "idle"
    /\ UNCHANGED <<index, start, q, dependencies, overflow, untracked, diskVars,
                   runs,
                   code_content, entry_i>>
    /\ UNCHANGED otherVars

\* lines 187-217: generate_new_combine_lua(parent_folder, sub_folder,
\* filename, extract_depen_obj)
Generate ==
    /\ pc = "generate"
    /\ LET original_code == read_lua_file(fs, Destination)
       IN  IF original_code = Raise
           THEN /\ pc' = "raised"
                /\ UNCHANGED fs
           ELSE /\ fs' = write_files(fs, WritePath,
                            WriteCode(CombineCode(fs, extract_depen_obj),
                                      original_code))
                /\ pc' = "written"
    /\ UNCHANGED <<walkVars, dirs, indexFile, runs, code_content,
                   extract_depen_obj, entry_i, unique_functions>>
    /\ UNCHANGED otherVars

----------------------------------------------------------------------------
(* Inputs of the bundler: source texts, disks and persisted indexes *)

\* m.f()
SrcCallF == <<"local", "m", "=", "require", "\"", "lib", "\"", "\n",
              "m", ".", "f", "(", ")", "\n">>
\* m.f() m.g()
SrcCallFG == <<"m", ".", "f", "(", ")", "\n", "m", ".", "g", "(", ")", "\n">>
\* p.g() m.f()
SrcCallPF == <<"p", ".", "g", "(", ")", "\n", "m", ".", "f", "(", ")", "\n">>
\* no reference at all
SrcPlain == <<"return", "\n">>

\* a module defining m.f (declaration form) and m.g (assignment form)
LibSrc == <<"function", "m", ".", "f", "(", "x", ")", "\n",
            "return", "x", "\n",
            "end", "\n",
            "m", ".", "g", "=", "function", "(", "x", ")", "\n",
            "return", "m", ".", "f", "(", "x", ")", "\n",
            "end", "\n">>
\* a module defining m.f only
LibPartSrc == <<"function", "m", ".", "f", "(", "x", ")", "\n",
                "return", "x", "\n",
                "end", "\n">>
\* a module defining and using u.h
Lib2Src == <<"function", "u", ".", "h", "(", ")", "\n",
             "return", "\n",
             "end", "\n",
             "u", ".", "h", "(", ")", "\n">>
\* a module defining p.g
DirFSrc == <<"function", "p", ".", "g", "(", ")", "\n",
             "return", "\n",
             "end", "\n">>

TargetTexts == {<<>>, SrcCallF, SrcCallFG, SrcCallPF, SrcPlain}

\* the module "lib": absent, lib.lua (whole or defining m.f only),
\* lib/init.lua, or a directory lib without init.lua
LibKinds == {"none", "file", "part", "dir", "emptydir"}

\* the disk with the given target text (<<>>: no target file), kind of lib
\* module, and presence of lib2.lua and dir/f.lua
DiskOf(target, lib, lib2, dirf) ==
    LET present == (IF target # <<>> THEN {Destination} ELSE {})
                   \cup (IF lib \in {"file", "part"} THEN {<<"lib">>} ELSE {})
                   \cup (IF lib = "dir" THEN {<<"lib", "init">>} ELSE {})
                   \cup (IF lib2 THEN {<<"lib2">>} ELSE {})
                   \cup (IF dirf THEN {<<"dir", "f">>} ELSE {})
    IN  [p \in present |->
            IF p = Destination THEN target
            ELSE IF p = <<"lib">> /\ lib = "part" THEN LibPartSrc
            ELSE IF p \in {<<"lib">>, <<"lib", "init">>} THEN LibSrc
            ELSE IF p = <<"lib2">> THEN Lib2Src
            ELSE DirFSrc]

DirsOf(lib) == IF lib \in {"dir", "emptydir"} THEN {<<"lib">>} ELSE {}

\* the entries an index can hold for the target, for f.lua and for u.lua
\* (<<>>: no entry)
TargetEntries == {<<>>,
                  <<(<<"m", <<"lib">>>>)>>,
                  <<(<<"p", <<"dir", "f">>>>), (<<"m", <<"dir">>>>)>>,
                  <<(<<"m", <<"lib">>>>), (<<"m", <<"lib">>>>)>>}
FEntries == {<<>>, <<(<<"u", <<"lib2">>>>)>>, <<(<<"f", <<"lib2">>>>)>>}
UEntries == {<<>>, <<(<<"h", <<"lib">>>>)>>}

IndexOf(tE, fE, uE) ==
    LET keys == (IF tE # <<>> THEN {filename} ELSE {})
                \cup (IF fE # <<>> THEN {LuaName("f")} ELSE {})
                \cup (IF uE # <<>> THEN {LuaName("u")} ELSE {})
    IN  [k \in keys |-> IF k = filename THEN tE
                        ELSE IF k = LuaName("f") THEN fE ELSE uE]

\* index files whose text is two JSON documents, one after the other
TwoDocuments ==
    {json_dumps(IndexOf(tE, <<>>, <<>>)) \o json_dumps(IndexOf(tE, <<>>, <<>>)) :
        tE \in TargetEntries}

BundleIndexFiles ==
    {<<>>} \cup {json_dumps(IndexOf(tE, fE, uE)) :
                    tE \in TargetEntries, fE \in FEntries, uE \in UEntries}
           \cup TwoDocuments

----------------------------------------------------------------------------
(* The bundler: invocations of get_target_code on one disk *)

\* no text function has been applied
NoCall == [fn |-> "none", code |-> <<>>, name |-> <<>>, done |-> FALSE,
           result |-> <<>>]

\* generate_dependency_json has not been called
NoScan == [pc |-> "idle", n |-> 0, order |-> <<>>, mapping |-> <<>>, at |-> 0]

\* start_server has not been called
NoServer == [pc |-> "idle", inbox |-> <<>>, at |-> 0, binds |-> 0,
             client |-> "none", sent |-> <<>>, port_num |-> <<>>,
             value |-> <<>>, error |-> "none"]

Init ==
    /\ index = <<>>
    /\ start = <<>>
    /\ q = <<>>
    /\ dependencies = <<>>
    /\ wpc = "idle"
    /\ overflow = FALSE
    /\ untracked = 0
    /\ \E target \in TargetTexts, lib \in LibKinds, lib2, dirf \in BOOLEAN :
          /\ fs = DiskOf(target, lib, lib2, dirf)
          /\ dirs = DirsOf(lib)
    /\ indexFile \in BundleIndexFiles
    /\ pc = "idle"
    /\ runs = 0
    /\ code_content = <<>>
    /\ extract_depen_obj = <<>>
    /\ entry_i = 0
    /\ unique_functions = <<>>
    /\ call = NoCall
    /\ scan = NoScan
    /\ procs = <<>>
    /\ srv = NoServer

Next ==
    \/ Invoke
    \/ LoadIndex
    \/ ReadTarget
    \/ NextEntry
    \/ CallClosure
    \/ WalkBegin
    \/ WalkStep
    \/ WalkReturn
    \/ Resolve
    \/ Generate

Spec == Init /\ [][Next]_vars

----------------------------------------------------------------------------
(* The closure walk alone: extract_dependencies(start, index) *)

WalkNames == {"a", "b", "c", "d", "e"}

\* the modules that may have an index entry ("e" never has one)
WalkKeys == {"a", "b", "c", "d"}

\* index entries: <<alias, dotted path>> pairs (the walk reads the alias only)
Req(x) == <<x, <<x>>>>

\* one alias
OneAlias == {<<Req(x)>> : x \in WalkNames}

\* two distinct aliases, in alphabetical order
TwoAliases ==
    LET abc == <<"a", "b", "c", "d", "e">>
    IN  {<<Req(abc[z[1]]), Req(abc[z[2]])>> :
            z \in {y \in (1..5) \X (1..5) : y[1] < y[2]}}

\* a.lua and b.lua may require one or two modules, c.lua and d.lua one
WalkEntries(m) ==
    IF m \in {"a", "b"} THEN OneAlias \cup TwoAliases ELSE OneAlias

WalkIndexes ==
    UNION {{idx \in [{LuaName(m) : m \in S} -> OneAlias \cup TwoAliases] :
               \A m \in S : idx[LuaName(m)] \in WalkEntries(m)} :
           S \in SUBSET WalkKeys}

\* a bare alias, and qualified names of two and three segments
WalkStarts == {<<"a">>, <<"m", "a">>, <<"m", "a", "b">>}

WalkInit ==
    /\ index \in WalkIndexes
    /\ start \in WalkStarts
    /\ q = <<>>
    /\ dependencies = <<>>
    /\ wpc = "call"
    /\ overflow = FALSE
    /\ untracked = 0
    /\ fs = <<>>
    /\ dirs = {}
    /\ indexFile = <<>>
    /\ pc = "idle"
    /\ runs = 0
    /\ code_content = <<>>
    /\ extract_depen_obj = <<>>
    /\ entry_i = 0
    /\ unique_functions = <<>>
    /\ call = NoCall
    /\ scan = NoScan
    /\ procs = <<>>
    /\ srv = NoServer

WalkNext == WalkBegin \/ WalkStep \/ WalkReturn

WalkSpec == WalkInit /\ [][WalkNext]_vars

\* the loop of lines 116-122 is not suspended: a step that can run does
FairWalkSpec == WalkSpec /\ WF_vars(WalkNext)

----------------------------------------------------------------------------
(* The scanner: generate_dependency_json(folder, output_file) on a tree,    *)
(* followed or preceded by bundling runs that load the index it persists   *)

\* the files of the root folder, its sub-folders, the files of a sub-folder
RootFiles(files) == {f \in DOMAIN files : Len(f) = 1}
SubFolders(files) == {f[1] : f \in {x \in DOMAIN files : Len(x) = 2}}
FilesIn(files, d) == {f \in DOMAIN files : Len(f) = 2 /\ f[1] = d}

RECURSIVE FolderByFolder(_, _)
\* the files of the folders of `folders`, each folder in the order within[d]
FolderByFolder(folders, within) ==
    IF folders = <<>> THEN <<>>
    ELSE within[Head(folders)] \o FolderByFolder(Tail(folders), within)

\* the orders in which os.walk(folder) can yield the .lua files: top-down,
\* the files of one folder together, folders and files in directory order
\* (which the file system decides)
WalkOrders(files) ==
    LET D == SubFolders(files)
        Within == {w \in [D -> UNION {SeqsOf(FilesIn(files, d)) : d \in D}] :
                      \A d \in D : w[d] \in SeqsOf(FilesIn(files, d))}
    IN  {ro \o FolderByFolder(fo, w) :
            ro \in SeqsOf(RootFiles(files)), fo \in SeqsOf(D), w \in Within}

\* mutant: a file name already recorded keeps its list and gets the new
\* one appended
MergeEntry(requirement_local, file, local_requires) ==
    [k \in DOMAIN requirement_local \cup {file} |->
        IF k # file THEN requirement_local[k]
        ELSE IF file \in DOMAIN requirement_local
        THEN requirement_local[file] \o local_requires
        ELSE local_requires]

\* line 308: requirement_local[file] = local_requires
SetEntry(requirement_local, file, local_requires) ==
    [k \in DOMAIN requirement_local \cup {file} |->
        IF k = file THEN local_requires ELSE requirement_local[k]]

RECURSIVE ScanFiles(_, _, _)
\* lines 301-308 for the files of `order`: requirement_local, keyed by the
\* bare file name
ScanFiles(files, order, requirement_local) ==
    IF order = <<>> THEN requirement_local
    ELSE LET file_path == Head(order)
             file == LuaName(file_path[Len(file_path)])
             local_requires ==
                 extract_local_requirements(read_lua_file(files, file_path))
         IN  ScanFiles(files, Tail(order),
                       IF Len(local_requires) > 0
                       THEN SetEntry(requirement_local, file, local_requires)
                       ELSE requirement_local)

\* the index file as a disk of one path
IndexPath == <<"dependencies">>
IndexDisk == IF indexFile = <<>> THEN <<>> ELSE [f \in {IndexPath} |-> indexFile]

\* generate_dependency_json(folder, output_file), called while no bundling
\* run is in progress; read_lua_file (line 303) raises on a file that cannot
\* be read, before anything is written
Scan ==
    /\ pc \in {"idle", "returned", "raised", "written"}
    /\ scan.n < MaxScans
    /\ \E order \in WalkOrders(fs) :
          IF \E i \in 1..Len(order) : read_lua_file(fs, order[i]) = Raise
          THEN /\ scan' = [pc |-> "raised", n |-> scan.n + 1, order |-> order,
                           mapping |-> <<>>, at |-> runs]
               /\ UNCHANGED indexFile
          ELSE LET requirement_local == ScanFiles(fs, order, <<>>)
               IN  /\ scan' = [pc |-> "done", n |-> scan.n + 1,
                                order |-> order,
                                mapping |-> requirement_local, at |-> runs]
                   /\ indexFile' = write_files(IndexDisk, IndexPath,
                                       json_dumps(requirement_local))[IndexPath]
    /\ UNCHANGED <<walkVars, fs, dirs, bundleVars, call, procs, srv>>

\* module files that declare requires: with quotes, with parentheses
ReqLibSrc == <<"local", "m", "=", "require", "\"", "lib", "\"", "\n">>
ReqParenSrc == <<"local", "p", "=", "require", "(", "\"", "dir", ".", "f",
                 "\"", ")", "\n">>
ReqDirFSrc == <<"local", "u", "=", "require", "'", "dir", ".", "f", "'", "\n">>

\* the trees: the target app/t.lua, and optionally lib.lua, a/x.lua (one of
\* two texts), b/x.lua and a file that cannot be read
TreeOf(lib, ax, bx, bad) ==
    LET present == {Destination}
                   \cup (IF lib THEN {<<"lib">>} ELSE {})
                   \cup (IF ax # <<>> THEN {<<"a", "x">>} ELSE {})
                   \cup (IF bx THEN {<<"b", "x">>} ELSE {})
                   \cup (IF bad THEN {<<"bad">>} ELSE {})
    IN  [f \in present |->
            IF f = Destination THEN SrcCallF
            ELSE IF f = <<"lib">> THEN LibPartSrc
            ELSE IF f = <<"a", "x">> THEN ax
            ELSE IF f = <<"b", "x">> THEN ReqDirFSrc
            ELSE NotText]

ScanTrees ==
    {TreeOf(lib, ax, bx, bad) :
        lib \in BOOLEAN, ax \in {<<>>, ReqLibSrc, ReqParenSrc},
        bx \in BOOLEAN, bad \in BOOLEAN}

\* the index path holds no file, or the index of an earlier scan
PriorIndexFiles == {<<>>, json_dumps(IndexOf(<<(<<"m", <<"lib">>>>)>>, <<>>, <<>>))}

ScanInit ==
    /\ fs \in ScanTrees
    /\ dirs = {}
    /\ indexFile \in PriorIndexFiles
    /\ scan = NoScan
    /\ index = <<>>
    /\ start = <<>>
    /\ q = <<>>
    /\ dependencies = <<>>
    /\ wpc = "idle"
    /\ overflow = FALSE
    /\ untracked = 0
    /\ pc = "idle"
    /\ runs = 0
    /\ code_content = <<>>
    /\ extract_depen_obj = <<>>
    /\ entry_i = 0
    /\ unique_functions = <<>>
    /\ call = NoCall
    /\ procs = <<>>
    /\ srv = NoServer

ScanNext == Scan \/ Next

ScanSpec == ScanInit /\ [][ScanNext]_vars

----------------------------------------------------------------------------
(* Two calls of get_target_code running at the same time on one tree, each *)
(* for its own target of the folder app                                    *)

Procs == {1, 2}

\* the file names of the targets and the stems of their paths
NameT == <<"t", "lua">>
NameO == <<"o", "lua">>
NameTX == <<"t", "x", "lua">>
FileStem(name) ==
    IF name = NameT THEN "t" ELSE IF name = NameO THEN "o" ELSE "t.x"

\* f'{parent_folder}/{sub_folder}/{filename}' of a call
DestinationOf(name) == <<sub_folder, FileStem(name)>>

\* line 216: f'{parent_folder}/{sub_folder}/{filename.split(".")[0]}_new.lua'
WritePathOf(name) == <<sub_folder, NewStem(name[1])>>

\* a call that has just been entered
Entered(name) ==
    [pc |-> "load", name |-> name, index |-> <<>>, code |-> <<>>, i |-> 0,
     extract |-> <<>>, write_code |-> <<>>]

RECURSIVE LeafAll(_, _, _)
\* lines 259-271 for the names of `uniques`, all resolved directly
LeafAll(extract, reference, uniques) ==
    IF uniques = <<>> THEN extract
    ELSE LeafAll(LeafInto(extract, reference, Head(uniques)), reference,
                 Tail(uniques))

\* lines 238-245 of call p
PLoad(p) ==
    /\ procs[p].pc = "load"
    /\ IF indexFile = <<>> \/ ~Loadable(indexFile)
       THEN procs' = [procs EXCEPT ![p].pc = "raised"]
       ELSE procs' = [procs EXCEPT
                ![p].index = json_loads(indexFile),
                ![p].pc = IF procs[p].name \in DOMAIN json_loads(indexFile)
                          THEN "read" ELSE "returned"]
    /\ UNCHANGED <<walkVars, diskVars, bundleVars, call, scan, srv>>

\* lines 247-248 of call p
PReadTarget(p) ==
    /\ procs[p].pc = "read"
    /\ LET code == read_lua_file(fs, DestinationOf(procs[p].name))
       IN  IF code = Raise
           THEN procs' = [procs EXCEPT ![p].pc = "raised"]
           ELSE procs' = [procs EXCEPT ![p].code = code, ![p].pc = "entries"]
    /\ UNCHANGED <<walkVars, diskVars, bundleVars, call, scan, srv>>

\* lines 250-285 of call p for one (module, reference) pair whose references
\* all have an empty closure (no member name is a key of the index), or the
\* end of the loop
PEntry(p) ==
    /\ procs[p].pc = "entries"
    /\ LET arr == procs[p].index[procs[p].name]
           i == procs[p].i + 1
       IN  IF procs[p].i = Len(arr)
           THEN procs' = [procs EXCEPT ![p].pc = "generate"]
           ELSE /\ \A u \in Range(find_references(procs[p].code, arr[i][1])) :
                      LuaName(Seed(u)) \notin DOMAIN procs[p].index
                /\ \E order \in SeqsOf(Range(find_references(
                           procs[p].code, arr[i][1]))) :
                      procs' = [procs EXCEPT
                          ![p].i = i,
                          ![p].extract =
                              LeafAll(procs[p].extract, arr[i][2], order)]
    /\ UNCHANGED <<walkVars, diskVars, bundleVars, call, scan, srv>>

\* lines 187-215 of call p: the target and the dependency files are read
\* and write_code is built
PCombine(p) ==
    /\ procs[p].pc = "generate"
    /\ LET original_code == read_lua_file(fs, DestinationOf(procs[p].name))
       IN  IF original_code = Raise
           THEN procs' = [procs EXCEPT ![p].pc = "raised"]
           ELSE procs' = [procs EXCEPT
                    ![p].write_code =
                        WriteCode(CombineCode(fs, procs[p].extract),
                                  original_code),
                    ![p].pc = "write"]
    /\ UNCHANGED <<walkVars, diskVars, bundleVars, call, scan, srv>>

\* lines 216-217 of call p: write_files(write_path, write_code)
PWrite(p) ==
    /\ procs[p].pc = "write"
    /\ fs' = write_files(fs, WritePathOf(procs[p].name), procs[p].write_code)
    /\ procs' = [procs EXCEPT ![p].pc = "written"]
    /\ UNCHANGED <<walkVars, dirs, indexFile, bundleVars, call, scan, srv>>

\* the targets of the folder app, and lib.lua or not
ConcTrees ==
    {[f \in {<<"app", "t">>, <<"app", "o">>, <<"app", "t.x">>} \cup L |->
         IF f = <<"app", "t">> THEN SrcCallF
         ELSE IF f = <<"app", "o">> THEN SrcCallFG
         ELSE IF f = <<"app", "t.x">> THEN SrcCallPF
         ELSE LibSrc] : L \in {{}, {<<"lib">>}}}

\* indexes keyed by t.lua and by some of the other targets, each requiring
\* lib under the alias m
ConcIndexes ==
    {[k \in {NameT} \cup K |-> <<(<<"m", <<"lib">>>>)>>] :
        K \in SUBSET {NameO, NameTX}}

\* call 1 is for t.lua, call 2 for another target
ConcInit ==
    /\ fs \in ConcTrees
    /\ dirs = {}
    /\ indexFile \in {json_dumps(idx) : idx \in ConcIndexes}
    /\ \E name \in {NameO, NameTX} :
          procs = [p \in Procs |-> Entered(IF p = 1 THEN NameT ELSE name)]
    /\ scan = NoScan
    /\ index = <<>>
    /\ start = <<>>
    /\ q = <<>>
    /\ dependencies = <<>>
    /\ wpc = "idle"
    /\ overflow = FALSE
    /\ untracked = 0
    /\ pc = "idle"
    /\ runs = 0
    /\ code_content = <<>>
    /\ extract_depen_obj = <<>>
    /\ entry_i = 0
    /\ unique_functions = <<>>
    /\ call = NoCall
    /\ srv = NoServer

ConcNext ==
    \/ \E p \in Procs : PLoad(p)
    \/ \E p \in Procs : PReadTarget(p)
    \/ \E p \in Procs : PEntry(p)
    \/ \E p \in Procs : PCombine(p)
    \/ \E p \in Procs : PWrite(p)

ConcSpec == ConcInit /\ [][ConcNext]_vars

----------------------------------------------------------------------------
(* src/core/connection_manager.py: start_server(ip, port).  What one recv  *)
(* returns is a sequence of characters, <<>> for b'' (the peer has closed) *)
(* or NotText for bytes that do not decode.                                *)

\* the status lines of config.constants, which connection_manager imports
HTTP_OK == "200 OK"
HTTP_BAD_REQUEST == "400 Bad Request"

DigitChar == <<"0", "1", "2", "3", "4", "5", "6", "7", "8", "9">>
IsDigit(c) == \E d \in 1..10 : DigitChar[d] = c
DigitOf(c) == (CHOOSE d \in 1..10 : DigitChar[d] = c) - 1

RECURSIVE Strip(_)
\* int() ignores the blanks around the number
Strip(s) ==
    IF s # <<>> /\ Head(s) = " " THEN Strip(Tail(s))
    ELSE IF s # <<>> /\ s[Len(s)] = " " THEN Strip(SubSeq(s, 1, Len(s) - 1))
    ELSE s

\* the digits after an optional sign
Unsigned(s) ==
    LET t == Strip(s)
    IN  IF t # <<>> /\ Head(t) \in {"-", "+"} THEN Tail(t) ELSE t

\* int(decoded_data) raises no ValueError
IntParses(s) ==
    /\ Unsigned(s) # <<>>
    /\ \A i \in 1..Len(Unsigned(s)) : IsDigit(Unsigned(s)[i])

RECURSIVE NatOf(_)
NatOf(ds) ==
    IF ds = <<>> THEN 0
    ELSE 10 * NatOf(SubSeq(ds, 1, Len(ds) - 1)) + DigitOf(ds[Len(ds)])

\* int(decoded_data) for a text that parses
IntOf(s) ==
    IF Head(Strip(s)) = "-" THEN 0 - NatOf(Unsigned(s)) ELSE NatOf(Unsigned(s))

RECURSIVE NatStr(_)
NatStr(k) ==
    IF k < 10 THEN <<DigitChar[k + 1]>>
    ELSE NatStr(k \div 10) \o <<DigitChar[(k % 10) + 1]>>

\* str(port_num)
Str(k) == IF k < 0 THEN <<"-">> \o NatStr(0 - k) ELSE NatStr(k)

\* lines 108-115: the response to a port number, sent in chunks of ten
\* characters one after the other
OkResponse(port_num) ==
    [status |-> HTTP_OK, content_length |-> Len(Str(port_num)),
     body |-> Str(port_num)]

\* lines 119-120
BadResponse == [status |-> HTTP_BAD_REQUEST, content_length |-> 0, body |-> <<>>]

\* lines 74-85: socket() and bind(); errno 48 is retried after
\* check_and_close_port and a sleep, any other OSError is raised again
SrvBind ==
    /\ srv.pc = "bind"
    /\ \/ srv' = [srv EXCEPT !.pc = "accept"]
       \/ /\ srv.binds < MaxBinds
          /\ srv' = [srv EXCEPT !.binds = srv.binds + 1]
       \/ srv' = [srv EXCEPT !.pc = "raised", !.error = "OSError"]
    /\ UNCHANGED <<walkVars, diskVars, bundleVars, call, scan, procs>>

\* lines 87-92: listen(5) and accept(), which returns once a client connects
SrvAccept ==
    /\ srv.pc = "accept"
    /\ srv' = [srv EXCEPT !.pc = "recv", !.client = "open"]
    /\ UNCHANGED <<walkVars, diskVars, bundleVars, call, scan, procs>>

\* lines 95-126: one recv and what follows it; recv blocks while the client
\* sends nothing.  Leaving the loop runs the finally clause (line 122) and
\* then `return port_num` (line 126), which raises UnboundLocalError when
\* port_num was never assigned.
SrvRecv ==
    /\ srv.pc = "recv"
    /\ srv.at < Len(srv.inbox)
    /\ LET data == srv.inbox[srv.at + 1]
       IN  IF data = <<>>
           THEN srv' = [srv EXCEPT
                    !.at = srv.at + 1, !.client = "closed",
                    !.pc = IF srv.port_num = <<>> THEN "raised" ELSE "returned",
                    !.error = IF srv.port_num = <<>>
                              THEN "UnboundLocalError" ELSE "none",
                    !.value = srv.port_num]
           ELSE IF data = NotText
           THEN srv' = [srv EXCEPT
                    !.at = srv.at + 1, !.client = "closed",
                    !.pc = "raised", !.error = "UnicodeDecodeError"]
           ELSE IF IntParses(data)
           THEN srv' = [srv EXCEPT
                    !.at = srv.at + 1, !.client = "closed",
                    !.port_num = <<IntOf(data)>>,
                    !.sent = Append(srv.sent, OkResponse(IntOf(data))),
                    !.pc = "returned", !.value = <<IntOf(data)>>]
           ELSE srv' = [srv EXCEPT
                    !.at = srv.at + 1,
                    !.sent = Append(srv.sent, BadResponse)]
    /\ UNCHANGED <<walkVars, diskVars, bundleVars, call, scan, procs>>

\* what a recv can return
Datas ==
    {<<>>, NotText, <<"8", "0">>, <<"0", "8">>, <<" ", "8">>, <<"-", "8">>,
     <<"a">>, <<"8", "a">>, <<"-">>}

\* what the client side provides to the successive recv calls
Inboxes == UNION {[1..k -> Datas] : k \in 0..MaxMsgs}

\* start_server has been called
ServerInit ==
    /\ srv \in {[NoServer EXCEPT !.pc = "bind", !.inbox = inbox] :
                  inbox \in Inboxes}
    /\ fs = <<>>
    /\ dirs = {}
    /\ indexFile = <<>>
    /\ scan = NoScan
    /\ index = <<>>
    /\ start = <<>>
    /\ q = <<>>
    /\ dependencies = <<>>
    /\ wpc = "idle"
    /\ overflow = FALSE
    /\ untracked = 0
    /\ pc = "idle"
    /\ runs = 0
    /\ code_content = <<>>
    /\ extract_depen_obj = <<>>
    /\ entry_i = 0
    /\ unique_functions = <<>>
    /\ call = NoCall
    /\ procs = <<>>

ServerNext == SrvBind \/ SrvAccept \/ SrvRecv

ServerSpec == ServerInit /\ [][ServerNext]_vars

----------------------------------------------------------------------------
(* The text functions alone: find_references, extract_function_block and    *)
(* extract_local_requirements applied once to a text                       *)

\* m.f()
LineCall == <<"m", ".", "f", "(", ")", "\n">>
\* -- m.g
LineComment == <<"--", "m", ".", "g", "\n">>
\* x = "m.h"
LineString == <<"x", "=", "\"", "m", ".", "h", "\"", "\n">>
\* xm.k()
LineInWord == <<"xm", ".", "k", "(", ")", "\n">>
\* m.m.f()
LineChain == <<"m", ".", "m", ".", "f", "(", ")", "\n">>
\* p.f()
LineOther == <<"p", ".", "f", "(", ")", "\n">>
\* local m = require "lib"
LineRequire == <<"local", "m", "=", "require", "\"", "lib", "\"", "\n">>
\* local p = require("dir.f")
LineRequireParen == <<"local", "p", "=", "require", "(", "\"", "dir", ".", "f",
                      "\"", ")", "\n">>
\* local u = require 'dir.f'
LineRequireSingle == <<"local", "u", "=", "require", "'", "dir", ".", "f", "'",
                       "\n">>
\* function m.f(x) return x end
BlockDecl == <<"function", "m", ".", "f", "(", "x", ")", "\n",
               "return", "x", "\n",
               "end", "\n">>
\* m.f = function(y) return y end
BlockAssign == <<"m", ".", "f", "=", "function", "(", "y", ")", "\n",
                 "return", "y", "\n",
                 "end", "\n">>
\* xm.f = function(x) return x end
BlockInWord == <<"xm", ".", "f", "=", "function", "(", "x", ")", "\n",
                 "return", "x", "\n",
                 "end", "\n">>
\* an empty line
LineBlank == <<"\n">>
\* function m.g(x), an inner block closed by a line `end`, return x, end
BlockNested == <<"function", "m", ".", "g", "(", "x", ")", "\n",
                 "if", "x", "then", "\n",
                 "end", "\n",
                 "return", "x", "\n",
                 "end", "\n">>
\* function m.g(x), return h(function() ... end), end: a line `end)`
BlockEndParen == <<"function", "m", ".", "g", "(", "x", ")", "\n",
                   "return", "h", "(", "function", "(", ")", "\n",
                   "end", ")", "\n",
                   "end", "\n">>

TextLines == {LineCall, LineComment, LineString, LineInWord, LineChain,
              LineOther, LineRequire, LineRequireParen, LineRequireSingle,
              BlockDecl, BlockAssign, BlockInWord, LineBlank, BlockNested,
              BlockEndParen}

\* function utils.f(x) return utils.f(x) end
UtilsBlock == <<"function", "utils", ".", "f", "(", "x", ")", "\n",
                "return", "utils", ".", "f", "(", "x", ")", "\n",
                "end", "\n">>
\* function m.get_utils(x) return x end
GetUtilsBlock == <<"function", "m", ".", "get_utils", "(", "x", ")", "\n",
                   "return", "x", "\n",
                   "end", "\n">>
\* function utils.get_utils(x) return x end
UtilsGetBlock == <<"function", "utils", ".", "get_utils", "(", "x", ")", "\n",
                   "return", "x", "\n",
                   "end", "\n">>

\* the lines of the module files the blocks are taken from, and the names
\* recorded for them
ModuleLines == {UtilsBlock, GetUtilsBlock, UtilsGetBlock, BlockDecl, BlockAssign,
                LineCall, LineBlank}
RecordedNames == {<<"foo_utils", "f">>, <<"m", "get_utils">>, <<"m", "f">>,
                  <<"m", "g">>}

RECURSIVE Concat(_)
Concat(lines) == IF lines = <<>> THEN <<>> ELSE Head(lines) \o Concat(Tail(lines))

\* the texts of one to MaxLines lines
Texts == {Concat(ls) : ls \in UNION {[1..n -> TextLines] : n \in 1..MaxLines}}

\* the module texts of one to MaxLines lines
ModuleTexts ==
    {Concat(ls) : ls \in UNION {[1..k -> ModuleLines] : k \in 1..MaxLines}}

\* the calls: function, text, and alias or qualified name
TextCalls ==
    {[fn |-> "find_references", code |-> c, name |-> a, done |-> FALSE,
      result |-> <<>>] : c \in Texts, a \in {<<"m">>, <<"p">>}}
    \cup
    {[fn |-> "extract_function_block", code |-> c, name |-> f, done |-> FALSE,
      result |-> <<>>] : c \in Texts, f \in {<<"m", "f">>, <<"m", "g">>}}
    \cup
    {[fn |-> "extract_local_requirements", code |-> c, name |-> <<>>,
      done |-> FALSE, result |-> <<>>] : c \in Texts}
    \cup
    {[fn |-> "file_blocks", code |-> c, name |-> f, done |-> FALSE,
      result |-> <<>>] : c \in ModuleTexts, f \in RecordedNames}

TextInit ==
    /\ call \in TextCalls
    /\ index = <<>>
    /\ start = <<>>
    /\ q = <<>>
    /\ dependencies = <<>>
    /\ wpc = "idle"
    /\ overflow = FALSE
    /\ untracked = 0
    /\ fs = <<>>
    /\ dirs = {}
    /\ indexFile = <<>>
    /\ pc = "idle"
    /\ runs = 0
    /\ code_content = <<>>
    /\ extract_depen_obj = <<>>
    /\ entry_i = 0
    /\ unique_functions = <<>>
    /\ scan = NoScan
    /\ procs = <<>>
    /\ srv = NoServer

\* find_references(code, alias) returns
CallFindReferences ==
    /\ call.fn = "find_references" /\ ~call.done
    /\ call' = [call EXCEPT !.done = TRUE,
                            !.result = find_references(call.code, call.name[1])]
    /\ UNCHANGED <<walkVars, diskVars, bundleVars, scan, procs, srv>>

\* extract_function_block(code, name) returns
CallExtractFunctionBlock ==
    /\ call.fn = "extract_function_block" /\ ~call.done
    /\ call' = [call EXCEPT !.done = TRUE,
                            !.result = extract_function_block(call.code, call.name)]
    /\ UNCHANGED <<walkVars, diskVars, bundleVars, scan, procs, srv>>

\* extract_local_requirements(code) returns
CallExtractLocalRequirements ==
    /\ call.fn = "extract_local_requirements" /\ ~call.done
    /\ call' = [call EXCEPT !.done = TRUE,
                            !.result = extract_local_requirements(call.code)]
    /\ UNCHANGED <<walkVars, diskVars, bundleVars, scan, procs, srv>>

\* lines 199-207 of generate_new_combine_lua for one function of one file:
\* what the function adds to combine_code
CallFileBlocks ==
    /\ call.fn = "file_blocks" /\ ~call.done
    /\ call' = [call EXCEPT !.done = TRUE,
                            !.result = FileBlocks(call.code, <<call.name>>)]
    /\ UNCHANGED <<walkVars, diskVars, bundleVars, scan, procs, srv>>

TextNext ==
    \/ CallFindReferences
    \/ CallExtractFunctionBlock
    \/ CallExtractLocalRequirements
    \/ CallFileBlocks

TextSpec == TextInit /\ [][TextNext]_vars

----------------------------------------------------------------------------
(* Claims C1-C3: the closure walk *)

\* the call is extract_dependencies(alias, index) with an unqualified alias
BareStart == Len(start) = 1

\* the modules reachable from the start alias that have an index entry
ReachableKeyed == Keyed(index, ReachFrom(index, {start[1]}))

\* every module reachable from the start alias, with or without an entry
ReachableAll == ReachFrom(index, {start[1]})

Returned == wpc = "done" /\ ~overflow

\* C1: for an index whose require graph contains a cycle, the walk
\* terminates and returns the finite set of reachable modules.
ClaimC1_CyclicWalkTerminates ==
    (HasCycle(index) /\ BareStart) =>
        <>(wpc = "done" /\ Range(dependencies) = ReachableKeyed)

\* C2 as stated: for an acyclic index the returned names are exactly the
\* modules reachable from the start alias through index entries.
ClaimC2_ReturnsAllReachable ==
    (Returned /\ ~HasCycle(index) /\ BareStart
     /\ LuaName(start[1]) \in DOMAIN index) =>
        Range(dependencies) = ReachableAll

\* C2 amended: for an acyclic index the walk terminates, and the returned
\* names are exactly the reachable modules that have an index entry.
ClaimC2_AcyclicClosure ==
    (~HasCycle(index) /\ BareStart) =>
        /\ <>(wpc = "done")
        /\ [](wpc = "done" =>
                 ~overflow /\ Range(dependencies) = ReachableKeyed)

\* C2 witness: an acyclic walk has returned three modules and left out a
\* reachable module that has no index entry.
WitnessC2 ==
    /\ Returned /\ ~HasCycle(index) /\ BareStart
    /\ Cardinality(Range(dependencies)) >= 3
    /\ ReachableAll # ReachableKeyed

\* C3: a returned closure holds each module name at most once.
ClaimC3_NoDuplicates == Returned => NoDup(dependencies)

----------------------------------------------------------------------------
(* Claims C4-C10: the bundler *)

Finished == {"returned", "raised", "written"}

\* the persisted index is one JSON document and holds an entry for the target
HasEntry == Len(indexFile) = 1 /\ filename \in DOMAIN indexFile[1]

\* the persisted index is one JSON document without an entry for the target
NoEntry == Len(indexFile) = 1 /\ filename \notin DOMAIN indexFile[1]

IsPrefix(s, t) == Len(s) <= Len(t) /\ SubSeq(t, 1, Len(s)) = s

\* text s occurs in text t
Occurs(s, t) == \E i \in 1..(Len(t) - Len(s) + 1) : SubSeq(t, i, i + Len(s) - 1) = s

\* the <<file, name>> pairs an ExtractedFunctionMap records
Recorded(map) ==
    UNION {{<<map[i][1], n>> : n \in Range(map[i][2])} : i \in 1..Len(map)}

\* function definitions in a text (every definition of the model's sources
\* holds the keyword once)
NumBlocks(text) == Cardinality({i \in 1..Len(text) : text[i] = "function"})

\* C4: while one target is resolved, a name recorded for a file stays
\* recorded until the map is handed to generate_new_combine_lua.
ClaimC4_MapOnlyGrows ==
    [][(pc \in {"entries", "uniques", "closure"}
        /\ pc' \in {"entries", "uniques", "closure", "generate"})
       => Recorded(extract_depen_obj) \subseteq Recorded(extract_depen_obj')]_vars

\* C5 as stated: bundling a target that has no index entry writes the
\* delimiters around an empty prologue, then the target's source.
ClaimC5_EmptyPrologueBundle ==
    (NoEntry /\ Destination \in DOMAIN fs /\ runs = 1 /\ pc \in Finished) =>
        /\ WritePath \in DOMAIN fs
        /\ fs[WritePath] = WriteCode(<<>>, fs[Destination])

\* C5 amended: bundling a target that has no index entry returns after the
\* index is loaded and writes no output file.
ClaimC5_NoEntryNoBundle ==
    NoEntry => (pc \in {"idle", "load", "returned"} /\ WritePath \notin DOMAIN fs)

\* C5 witness: two runs on an existing target without an entry have returned.
WitnessC5 ==
    NoEntry /\ Destination \in DOMAIN fs /\ runs >= 2 /\ pc = "returned"

\* the target's entry is one require of a leaf module, the target references
\* exactly one function of it, and the module's file defines that function
OneLeafReference ==
    /\ HasEntry
    /\ Destination \in DOMAIN fs
    /\ Len(indexFile[1][filename]) = 1
    /\ LET module == indexFile[1][filename][1][1]
           file == LeafFile(dirs, indexFile[1][filename][1][2])
           refs == find_references(fs[Destination], module)
       IN  /\ Len(refs) = 1
           /\ LuaName(file[Len(file)]) \notin DOMAIN indexFile[1]
           /\ file \in DOMAIN fs
           /\ extract_function_block(fs[file], refs[1]) # NotFound

\* C6: a bundle written for a target that references one function of a leaf
\* dependency holds exactly one extracted function block, whatever the
\* member name and the other keys of the index.
ClaimC6_OneFunctionOneBlock ==
    (OneLeafReference /\ runs = 1 /\ pc = "written") =>
        NumBlocks(fs[WritePath]) = 1

\* text[from..to] is one bundle of the target: the begin delimiter, a
\* prologue, the end delimiter, the original source
IsBundle(text, from, to, original) ==
    /\ from + 1 <= to
    /\ text[from] = "\n"
    /\ text[from + 1] = BeginMark
    /\ \E e \in (from + 2)..to :
          /\ text[e] = EndMark
          /\ SubSeq(text, e + 1, to) = <<"\n", "\n", "\n">> \o original \o <<"\n">>

\* text is k bundles of the target, one after the other
IsBundles(text, k, original) ==
    LET begins == {i \in 1..Len(text) : text[i] = BeginMark}
        NextBegin(b) == IF \E c \in begins : c > b
                        THEN Min({c \in begins : c > b}) - 2
                        ELSE Len(text)
    IN  /\ Cardinality(begins) = k
        /\ k > 0 => 2 \in begins
        /\ \A b \in begins : IsBundle(text, b - 1, NextBegin(b), original)

\* C7: the output file is append-only: when the k-th run on unchanged
\* inputs has written, the file holds k consecutive bundles of the target,
\* and no step replaces or truncates what the file already held.
ClaimC7_AppendOnly ==
    /\ [](pc = "written" =>
             (WritePath \in DOMAIN fs
              /\ IsBundles(fs[WritePath], runs, fs[Destination])))
    /\ [][(WritePath \in DOMAIN fs) =>
             (WritePath \in DOMAIN fs'
              /\ IsPrefix(fs[WritePath], fs'[WritePath]))]_vars

\* C7 witness: the second run has written and the file holds function blocks.
WitnessC7 ==
    /\ pc = "written" /\ runs = 2
    /\ Cardinality({i \in 1..Len(fs[WritePath]) : fs[WritePath][i] = BeginMark}) = 2
    /\ NumBlocks(fs[WritePath]) >= 2

\* C8: a missing dependency file is skipped and raises no error: a run
\* fails only when the index file is missing or is not one JSON document,
\* or the target file is missing.
ClaimC8_MissingDependencySkipped ==
    pc = "raised" => (Len(indexFile) # 1 \/ Destination \notin DOMAIN fs)

\* C9 as stated: with the target file or the index file missing, the call
\* fails with an error and writes no output, whatever the index holds.
ClaimC9_MissingPrimaryRaises ==
    ((indexFile = <<>> \/ Destination \notin DOMAIN fs) /\ pc \in Finished) =>
        (pc = "raised" /\ WritePath \notin DOMAIN fs)

\* C9 amended: with the index file missing, or the target file missing and
\* an entry for the target in the index, the call fails with an error and
\* writes no output; with the target file missing and no entry for it, the
\* call returns without an error and writes no output.
ClaimC9_MissingPrimary ==
    /\ (indexFile = <<>> \/ (Destination \notin DOMAIN fs /\ HasEntry)) =>
           (pc \in {"idle", "load", "read", "raised"}
            /\ WritePath \notin DOMAIN fs)
    /\ (Destination \notin DOMAIN fs /\ NoEntry) =>
           (pc \in {"idle", "load", "returned"} /\ WritePath \notin DOMAIN fs)

\* C9 witness: a run on a missing target that has an index entry has raised.
WitnessC9 == Destination \notin DOMAIN fs /\ HasEntry /\ pc = "raised"

\* a definition header of the name occurs in the text
HeaderOccurs(name, text) ==
    \/ Occurs(<<"function">> \o NameToks(name), text)
    \/ Occurs(NameToks(name) \o <<"=">>, text)

\* the name has a definition, in either form, in the text of its module
Defined(name, content) ==
    extract_function_block(content, TempFunc(name)) # NotFound

\* what the step appended to the output file
Appended == IF WritePath \in DOMAIN fs
            THEN SubSeq(fs'[WritePath], Len(fs[WritePath]) + 1, Len(fs'[WritePath]))
            ELSE fs'[WritePath]

\* the bundle appended holds no block for a recorded name without a
\* definition and the block of a recorded name with one
BlockIffDefined(r) ==
    IF Defined(r[2], fs[r[1]])
    THEN Occurs(<<"\n">> \o ReplaceName(
                    extract_function_block(fs[r[1]], TempFunc(r[2])),
                    TempFunc(r[2]), r[2]),
                Appended)
    ELSE ~HeaderOccurs(r[2], Appended)

\* C10: a recorded name without a matching definition does not fail the
\* bundling: generate_new_combine_lua writes the bundle, with no block for
\* that name, the block of every recorded name that has a definition, and
\* the target's source.
ClaimC10_PatternMissSkipped ==
    [][(pc = "generate") =>
          (/\ pc' = "written"
           /\ \A r \in Recorded(extract_depen_obj) :
                 r[1] \in DOMAIN fs => BlockIffDefined(r)
           /\ Occurs(<<EndMark, "\n", "\n", "\n">> \o fs[Destination],
                     Appended))]_vars

\* C10 witness: a bundle was written from a map that records, for existing
\* files, a name without a definition and a name with one.
WitnessC10 ==
    /\ pc = "written"
    /\ \E r \in Recorded(extract_depen_obj) :
          r[1] \in DOMAIN fs /\ ~Defined(r[2], fs[r[1]])
    /\ \E r \in Recorded(extract_depen_obj) :
          r[1] \in DOMAIN fs /\ Defined(r[2], fs[r[1]])

----------------------------------------------------------------------------
(* Claims C11, C18, C20: the bundler *)

\* C11: with an index file whose text does not parse as one JSON document,
\* every run fails while loading the index: the target is never read and no
\* output file is created or appended to.
ClaimC11_UnparsableIndexFatal ==
    (indexFile # <<>> /\ Len(indexFile) # 1) =>
        /\ pc \in {"idle", "load", "raised"}
        /\ code_content = <<>>
        /\ WritePath \notin DOMAIN fs

\* C11 witness: a second run on an existing target has failed on an index
\* file that does not parse.
WitnessC11 ==
    /\ indexFile # <<>> /\ Len(indexFile) # 1
    /\ Destination \in DOMAIN fs
    /\ runs = 2 /\ pc = "raised"

\* the output file of the target app/t.lua
OutputOfT == <<"app", "t_new">>

\* every file but the output file is kept as it was, and no other file is
\* created
InputsKept ==
    /\ indexFile' = indexFile
    /\ dirs' = dirs
    /\ \A f \in DOMAIN fs \ {OutputOfT} : f \in DOMAIN fs' /\ fs'[f] = fs[f]
    /\ DOMAIN fs' \subseteq DOMAIN fs \cup {OutputOfT}

\* C18: no step of a bundling run changes the target, the index file or a
\* dependency module file; the only file a run creates or modifies is
\* app/t_new.lua.
ClaimC18_OnlyOutputWritten == [][InputsKept]_vars

\* C18 witness: a run over an index entry with recorded dependency files
\* that exist has written the output file, next to the target.
WitnessC18 ==
    /\ pc = "written" /\ runs = 1
    /\ OutputOfT \in DOMAIN fs /\ Destination \in DOMAIN fs
    /\ \E i \in 1..Len(extract_depen_obj) :
          extract_depen_obj[i][1] \in DOMAIN fs

\* C20: when the map is handed to generate_new_combine_lua, the list
\* recorded for a file path holds no qualified function name twice.
ClaimC20_MapValuesAreSets ==
    pc = "generate" =>
        \A i \in 1..Len(extract_depen_obj) : NoDup(extract_depen_obj[i][2])

----------------------------------------------------------------------------
(* Claims C12-C14: the text functions *)

\* the positions, in increasing order, of a set of positions
Ascending(P) ==
    IF P = {} THEN <<>>
    ELSE [k \in 1..Cardinality(P) |->
             CHOOSE j \in P : Cardinality({x \in P : x < j}) = k - 1]

\* positions where the characters of the alias are followed by '.' and an
\* identifier
Occurrences(code, alias) ==
    {i \in 1..(Len(code) - 2) :
        /\ IsWord(code[i]) /\ EndsWith(code[i], alias)
        /\ code[i + 1] = "."
        /\ IsWord(code[i + 2])}

\* "alias.identifier" for each position of P, in order of appearance
EntriesAt(code, alias, P) ==
    [k \in 1..Cardinality(P) |-> <<alias, code[Ascending(P)[k] + 2]>>]

\* the occurrences found scanning left to right: an occurrence that starts
\* on the identifier of the occurrence found before it is passed over
Scanned(code, alias) ==
    CHOOSE S \in SUBSET Occurrences(code, alias) :
        /\ \A i, j \in S : i < j => i + 3 <= j
        /\ \A o \in Occurrences(code, alias) : o \in S \/ o - 2 \in S

FoundReferences == call.fn = "find_references" /\ call.done

\* C12 as stated: find_references returns, in order and with duplicates,
\* one entry for every occurrence of the alias followed by '.' and an
\* identifier.
ClaimC12_EveryOccurrence ==
    FoundReferences =>
        call.result = EntriesAt(call.code, call.name[1],
                                Occurrences(call.code, call.name[1]))

\* C12 amended: find_references returns, in order and with duplicates, one
\* entry for every occurrence found scanning left to right (an occurrence
\* that overlaps the one found before it is passed over), and the empty list
\* when the alias does not occur.
ClaimC12_EveryScannedOccurrence ==
    FoundReferences =>
        /\ call.result = EntriesAt(call.code, call.name[1],
                                   Scanned(call.code, call.name[1]))
        /\ Occurrences(call.code, call.name[1]) = {} => call.result = <<>>

\* C12 witness: the same reference occurs twice and is returned twice.
WitnessC12 ==
    /\ FoundReferences
    /\ Len(call.result) = 2
    /\ call.result[1] = call.result[2]

ExtractedBlock == call.fn = "extract_function_block" /\ call.done

\* positions of the headers "function <name>(" of the text
DeclHeads(code, name) ==
    LET nt == NameToks(name)
    IN  {i \in 1..(Len(code) - Len(nt) - 1) :
            /\ code[i] = "function"
            /\ SubSeq(code, i + 1, i + Len(nt)) = nt
            /\ code[i + Len(nt) + 1] = "("}

\* positions of the headers "<name> = function" of the text
AssignHeads(code, name) ==
    LET nt == NameToks(name)
    IN  {i \in 1..(Len(code) - Len(nt) - 1) :
            /\ SubSeq(code, i, i + Len(nt) - 1) = nt
            /\ code[i + Len(nt)] = "="
            /\ code[i + Len(nt) + 1] = "function"}

\* the first line "end" after position i
ClosingEnd(code, i) ==
    Min({e \in (i + 1)..Len(code) : code[e] = "end" /\ code[e - 1] = "\n"})

\* the text without the newlines at its end
StripNL(text) ==
    SubSeq(text, 1, Min({n \in 0..Len(text) : \A j \in (n + 1)..Len(text) :
                                                   text[j] = "\n"}))

\* C13: for a text whose only definition of the name is in declaration
\* form, extract_function_block returns the text from `function` through
\* the closing `end` (newlines after it apart); for a name with no
\* definition in either form it returns None.
ClaimC13_ExactBlockOrNone ==
    ExtractedBlock =>
        LET D == DeclHeads(call.code, call.name)
            A == AssignHeads(call.code, call.name)
        IN  /\ (D # {} /\ A = {}) =>
                  StripNL(call.result) = SubSeq(call.code, Min(D),
                                                ClosingEnd(call.code, Min(D)))
            /\ (D = {} /\ A = {}) => call.result = NotFound

ExtractedRequirements == call.fn = "extract_local_requirements" /\ call.done

\* the declarations  local <alias> = require("<dotted.path>")  of the text,
\* as <<position, alias, path>>
ParenRequires(code) ==
    {<<i, code[i + 1], PathOf(code, i + 6, c - 1)>> :
        <<i, c>> \in {x \in (1..Len(code)) \X (1..Len(code)) :
            /\ x[1] + 6 < x[2] /\ x[2] < Len(code)
            /\ code[x[1]] = "local"
            /\ IsWord(code[x[1] + 1])
            /\ code[x[1] + 2] = "="
            /\ code[x[1] + 3] = "require"
            /\ code[x[1] + 4] = "("
            /\ code[x[1] + 5] \in Quotes
            /\ \A j \in (x[1] + 6)..(x[2] - 1) : IsWord(code[j]) \/ code[j] = "."
            /\ code[x[2]] \in Quotes
            /\ code[x[2] + 1] = ")"}}

\* C14: every declaration  local <alias> = require("<dotted.path>")  of a
\* text is recorded as an (alias, dotted path) pair, in order of appearance.
ClaimC14_ParenRequiresRecorded ==
    ExtractedRequirements =>
        \E at \in [ParenRequires(call.code) -> 1..Len(call.result)] :
            /\ \A d \in ParenRequires(call.code) :
                  call.result[at[d]] = <<d[2], d[3]>>
            /\ \A d, e \in ParenRequires(call.code) :
                  d[1] < e[1] => at[d] < at[e]

----------------------------------------------------------------------------
(* Claims C15-C17: the scanner *)

\* the requires the file declares
RequiresOf(f) == extract_local_requirements(fs[f])

\* the files the latest scan met that can be read and declare requires
Declaring ==
    {f \in Range(scan.order) : fs[f] # NotText /\ RequiresOf(f) # <<>>}

\* C15: after any number of scans written to the same index path, the
\* persisted index is the single mapping the latest scan produced, and a
\* bundling run started after the scan does not fail.
ClaimC15_LatestScanOnly ==
    scan.pc = "done" =>
        /\ indexFile = <<scan.mapping>>
        /\ pc = "raised" => runs = scan.at

\* C16: a scan of a tree holding a file that cannot be read skips that
\* file, raises no error and persists an index that records every other
\* file declaring requires.
ClaimC16_UnreadableSkipped ==
    (scan.n > 0 /\ \E f \in Range(scan.order) : fs[f] = NotText) =>
        /\ scan.pc = "done"
        /\ indexFile # <<>>
        /\ \A f \in Declaring :
              LuaName(f[Len(f)]) \in DOMAIN indexFile[Len(indexFile)]

\* the file scanned last among those of Declaring that bear the name of f
LastNamed(f) ==
    LET pos(g) == CHOOSE i \in 1..Len(scan.order) : scan.order[i] = g
    IN  CHOOSE g \in Declaring :
            /\ g[Len(g)] = f[Len(f)]
            /\ \A h \in Declaring : h[Len(h)] = f[Len(f)] => pos(h) <= pos(g)

\* no bundling run has started since the latest scan, so the files are
\* those the scan met
SinceScanUntouched == runs = scan.at

\* C17: the index is keyed by the bare file name: after a scan without
\* error, the mapping written last to the index file holds, under the name
\* of every file declaring requires, the require list of the file of that
\* name scanned last, and nothing of the others of that name.
ClaimC17_SameNameCollides ==
    (/\ scan.n > 0 /\ SinceScanUntouched
     /\ \A f \in Range(scan.order) : fs[f] # NotText) =>
        /\ scan.pc = "done"
        /\ indexFile[Len(indexFile)] = scan.mapping
        /\ DOMAIN scan.mapping = {LuaName(f[Len(f)]) : f \in Declaring}
        /\ \A f \in Declaring :
              scan.mapping[LuaName(f[Len(f)])] = RequiresOf(LastNamed(f))

\* C17 witness: a scan without error met two files of the same name in
\* different folders, declaring different requires.
WitnessC17 ==
    /\ scan.pc = "done" /\ SinceScanUntouched
    /\ \E f, g \in Declaring :
          /\ f # g /\ f[Len(f)] = g[Len(g)]
          /\ RequiresOf(f) # RequiresOf(g)
          /\ LastNamed(f) = g

----------------------------------------------------------------------------
(* Claim C19: two calls at the same time *)

\* the files no call writes: the tree without the output files
InputFiles ==
    LET outs == {WritePathOf(procs[p].name) : p \in Procs}
    IN  [f \in DOMAIN fs \ outs |-> fs[f]]

\* what the output file of call p holds when p runs alone on the tree
AloneOutput(p) ==
    WriteCode(CombineCode(InputFiles, procs[p].extract),
              InputFiles[DestinationOf(procs[p].name)])

\* C19: when two calls for distinct targets have both ended, the output
\* file of each call that wrote holds exactly what that call writes when it
\* runs alone.
ClaimC19_ConcurrentDistinctTargets ==
    (\A p \in Procs : procs[p].pc \in {"written", "returned", "raised"}) =>
        \A p \in Procs :
            procs[p].pc = "written" =>
                fs[WritePathOf(procs[p].name)] = AloneOutput(p)

----------------------------------------------------------------------------
(* Claim C21: start_server *)

\* the results of recv the call has consumed
Received == SubSeq(srv.inbox, 1, srv.at)

\* one 400 response for each message received that is not an integer
RECURSIVE Answers(_)
Answers(datas) ==
    IF datas = <<>> THEN <<>>
    ELSE IF Head(datas) = <<>> \/ Head(datas) = NotText THEN Answers(Tail(datas))
    ELSE IF IntParses(Head(datas))
    THEN <<OkResponse(IntOf(Head(datas)))>> \o Answers(Tail(datas))
    ELSE <<BadResponse>> \o Answers(Tail(datas))

\* C21: a call of start_server that has accepted a client and has ended has
\* returned an integer the client sent as a decimal message, has answered
\* each message that is not an integer with a 400 response, and has closed
\* the client socket.
ClaimC21_ReturnsReceivedPort ==
    (srv.pc \in {"returned", "raised"} /\ srv.client # "none") =>
        /\ srv.pc = "returned"
        /\ \E i \in 1..srv.at :
              /\ srv.inbox[i] # NotText /\ IntParses(srv.inbox[i])
              /\ srv.value = <<IntOf(srv.inbox[i])>>
        /\ srv.sent = Answers(Received)
        /\ srv.client = "closed"

----------------------------------------------------------------------------
(* Claim C22: references to leaf modules *)

\* the module the dotted path designates has no index entry
LeafModule(reference) == LuaName(reference[Len(reference)]) \notin DOMAIN index

\* the map records the name under the file of the module
RecordedUnder(reference, unique) ==
    /\ HasKey(extract_depen_obj, LeafFile(dirs, reference))
    /\ unique \in Range(Get(extract_depen_obj, LeafFile(dirs, reference)))

\* C22: when the map is handed to generate_new_combine_lua, every reference
\* alias.member of the target to a module without index entry is recorded
\* under the file of that module, whatever the member name is.
ClaimC22_LeafResolvedDirectly ==
    pc = "generate" =>
        \A i \in 1..Len(dependencies_array) :
            LeafModule(dependencies_array[i][2]) =>
                \A unique \in Range(find_references(code_content,
                                                    dependencies_array[i][1])) :
                    RecordedUnder(dependencies_array[i][2], unique)

----------------------------------------------------------------------------
(* Claims C23-C25: the closure walk, leaves, order and seed *)

\* the walk is about to take a name without index entry from the queue
LeafStep == wpc = "walk" /\ q # <<>> /\ LuaName(Head(q)) \notin DOMAIN index

\* C23: a name whose "<name>.lua" is not a key of the index is taken from
\* the queue without being expanded or recorded and without error; every
\* name of the closure has "<name>.lua" as a key; the closure of a walk that
\* starts from a name without index entry is empty.
ClaimC23_LeafNotExpanded ==
    [][/\ LeafStep =>
            (q' = Tail(q) /\ dependencies' = dependencies /\ wpc' = "walk")
       /\ \A i \in 1..Len(dependencies') :
              LuaName(dependencies'[i]) \in DOMAIN index
       /\ (wpc' = "done" /\ LuaName(Seed(start)) \notin DOMAIN index) =>
              dependencies' = <<>>]_vars

\* C23 witness: a walk has returned two names or more and has met a
\* reachable name without index entry, which the closure leaves out.
WitnessC23 ==
    /\ Returned /\ Len(dependencies) >= 2
    /\ \E m \in ReachFrom(index, {Seed(start)}) :
          LuaName(m) \notin DOMAIN index /\ m \notin Range(dependencies)

\* the keyed names of a list, in the order of the list
RECURSIVE KeyedOf(_)
KeyedOf(names) ==
    IF names = <<>> THEN <<>>
    ELSE (IF LuaName(Head(names)) \in DOMAIN index THEN <<Head(names)>> ELSE <<>>)
         \o KeyedOf(Tail(names))

\* the aliases listed by the entries of the names of a level, in order
RECURSIVE Children(_)
Children(level) ==
    IF level = <<>> THEN <<>>
    ELSE Aliases(index, LuaName(Head(level))) \o Children(Tail(level))

\* the levels one after the other: the keyed names at require-distance 0,
\* then those at distance 1, siblings in the order of the entry, and so on
RECURSIVE LevelOrder(_)
LevelOrder(level) ==
    IF level = <<>> THEN <<>>
    ELSE level \o LevelOrder(KeyedOf(Children(level)))

\* the least number of requires that lead from the seed to the name
RECURSIVE DistFrom(_, _, _)
DistFrom(S, m, d) ==
    IF m \in S THEN d
    ELSE DistFrom(S \cup UNION {Requires(index, x) : x \in S}, m, d + 1)
Dist(m) == DistFrom({Seed(start)}, m, 0)

FirstPos(m) == CHOOSE i \in 1..Len(dependencies) :
                  dependencies[i] = m /\ \A j \in 1..(i - 1) : dependencies[j] # m

\* C24: a returned closure is in breadth-first discovery order: the start
\* module first, then level by level, siblings in the order of the index
\* entry; a module first reached at a smaller distance comes before every
\* module first reached at a greater one.
ClaimC24_BreadthFirstOrder ==
    Returned =>
        /\ dependencies = LevelOrder(KeyedOf(<<Seed(start)>>))
        /\ dependencies # <<>> => dependencies[1] = Seed(start)
        /\ \A x, y \in Range(dependencies) :
              Dist(x) < Dist(y) => FirstPos(x) < FirstPos(y)

\* C24 witness: the closure holds two siblings at distance 1 and then a
\* module at distance 2 required by the first sibling.
WitnessC24 ==
    /\ Returned /\ Len(dependencies) >= 4
    /\ Dist(dependencies[2]) = 1 /\ Dist(dependencies[3]) = 1
    /\ Dist(dependencies[4]) = 2
    /\ dependencies[4] \in Requires(index, dependencies[2])

\* C25: the walk is seeded with the last dotted segment of the start alias
\* (the alias itself when it has no dot), for any number of segments.
ClaimC25_SeedLastSegment ==
    [][(wpc = "call") => (q' = <<start[Len(start)]>>)]_vars

----------------------------------------------------------------------------
(* Claims C26, C27: extract_function_block, the two forms and the extent *)

\* positions where the assignment pattern finds "<name> = function", the
\* name possibly at the end of a longer word (the pattern is not anchored)
AssignMatches(code, name) ==
    LET nt == NameToks(name)
    IN  {i \in 1..(Len(code) - Len(nt) - 1) :
            /\ EndsWith(code[i], nt[1])
            /\ SubSeq(code, i + 1, i + Len(nt) - 1) = Tail(nt)
            /\ code[i + Len(nt)] = "="
            /\ code[i + Len(nt) + 1] = "function"}

\* the first line after position i that holds `end` and nothing else
BareEnd(code, i) ==
    Min({e \in (i + 1)..Len(code) :
            /\ code[e] = "end" /\ code[e - 1] = "\n"
            /\ (e = Len(code) \/ code[e + 1] = "\n")})

\* the block of the assignment header at i, named by the name looked up
AssignBlock(code, name, i) ==
    NameToks(name)
    \o SubSeq(code, i + Len(NameToks(name)), BareEnd(code, i))

\* the block of the declaration header at i
DeclBlock(code, i) == SubSeq(code, i, BareEnd(code, i))

\* C26: when the assignment pattern matches somewhere in the text, the
\* block of its first match is returned, also when a declaration of the
\* name stands earlier; the block of the first declaration is returned
\* only when the assignment pattern matches nowhere.
ClaimC26_AssignmentFormFirst ==
    ExtractedBlock =>
        LET A == AssignMatches(call.code, call.name)
            D == DeclHeads(call.code, call.name)
        IN  /\ A # {} =>
                  StripNL(call.result) = AssignBlock(call.code, call.name, Min(A))
            /\ (A = {} /\ D # {}) =>
                  StripNL(call.result) = DeclBlock(call.code, Min(D))

\* C26 witness: the text holds a declaration of the name and, after it, an
\* assignment of the name; the assignment block is returned.
WitnessC26 ==
    /\ ExtractedBlock
    /\ DeclHeads(call.code, call.name) # {}
    /\ AssignHeads(call.code, call.name) # {}
    /\ Min(DeclHeads(call.code, call.name))
           < Min(AssignHeads(call.code, call.name))
    /\ call.result[Len(NameToks(call.name)) + 1] = "="

\* the header the block is taken from
HeaderOf(code, name) ==
    IF AssignMatches(code, name) # {} THEN Min(AssignMatches(code, name))
    ELSE Min(DeclHeads(code, name))

\* the last token of the line of position e
LineLast(code, e) ==
    Min({j \in e..Len(code) : j = Len(code) \/ code[j + 1] = "\n"})

\* C27 as stated: the block ends with the first line after the header that
\* begins with end, whatever follows end on that line.
ClaimC27_FirstLineBeginningWithEnd ==
    (ExtractedBlock /\ AssignMatches(call.code, call.name) = {}
     /\ DeclHeads(call.code, call.name) # {}) =>
        LET h == HeaderOf(call.code, call.name)
        IN  StripNL(call.result) =
                SubSeq(call.code, h, LineLast(call.code, ClosingEnd(call.code, h)))

\* C27 amended: the block runs from the header through the first line after
\* it that holds end and nothing else, and goes on over newlines only; a
\* line where something follows end does not close the block; an inner
\* line `end` closes it before the function's own end.
ClaimC27_FirstBareEndLine ==
    (ExtractedBlock /\ (AssignMatches(call.code, call.name) # {}
                        \/ DeclHeads(call.code, call.name) # {})) =>
        LET h == HeaderOf(call.code, call.name)
            e == BareEnd(call.code, h)
        IN  /\ call.result # NotFound
            /\ StripNL(call.result)[Len(StripNL(call.result))] = "end"
            /\ Len(StripNL(call.result)) = e - h + 1
            /\ SubSeq(StripNL(call.result), Len(NameToks(call.name)) + 1, e - h + 1)
                   = SubSeq(call.code, h + Len(NameToks(call.name)), e)

\* C27 witness: the block returned holds a line `end)` and ends with the
\* later line `end`.
WitnessC27 ==
    /\ ExtractedBlock /\ call.result # NotFound
    /\ \E e \in 2..(Len(call.result) - 1) :
          /\ call.result[e] = "end" /\ call.result[e - 1] = "\n"
          /\ call.result[e + 1] = ")"

----------------------------------------------------------------------------
(* Claim C28: names of *_utils modules *)

CombinedBlock == call.fn = "file_blocks" /\ call.done

\* the module segment of the name ends with _utils
UtilsModule(name) == name[1] \in {"foo_utils", "foo_foo_utils"}

\* the block of `lookup` in the text, every `lookup` in it rewritten to
\* `name`, as it is added to the bundle; nothing when there is no block
BlockUnder(code, lookup, name) ==
    IF extract_function_block(code, lookup) = NotFound THEN <<>>
    ELSE <<"\n">> \o ReplaceName(extract_function_block(code, lookup),
                                  lookup, name)

\* C28: a name whose module segment ends with _utils is looked up as
\* utils.<member> and the block is added with that name rewritten to the
\* original one; any other name is looked up as it is and its block is
\* added unchanged.
ClaimC28_UtilsNormalised ==
    CombinedBlock =>
        IF UtilsModule(call.name)
        THEN call.result =
                 BlockUnder(call.code, <<"utils", call.name[2]>>, call.name)
        ELSE call.result = BlockUnder(call.code, call.name, call.name)

----------------------------------------------------------------------------
(* Claim C29: the directory convention of dependency paths *)

\* the dotted module paths of the loaded index
DottedPaths ==
    UNION {{index[k][i][2] : i \in 1..Len(index[k])} : k \in DOMAIN index}

\* <root>/a/b/c.lua, or <root>/a/b/c/init.lua when <root>/a/b/c is a
\* directory
ConventionFile(reference) ==
    IF reference \in dirs THEN Append(reference, "init") ELSE reference

\* C29: when the map is handed to generate_new_combine_lua, every file path
\* it holds is the path the directory convention gives for a dotted module
\* path of the index: a/b/c.lua, or a/b/c/init.lua when a/b/c is a
\* directory.
ClaimC29_PathConvention ==
    pc = "generate" =>
        \A i \in 1..Len(extract_depen_obj) :
            \E reference \in DottedPaths :
                extract_depen_obj[i][1] = ConventionFile(reference)

----------------------------------------------------------------------------
(* Claim C30: the layout of a bundle *)

RECURSIVE PairsOf(_)
\* the <<file, name>> pairs of a map: files in insertion order, the names
\* of one file in list order
PairsOf(map) ==
    IF map = <<>> THEN <<>>
    ELSE [j \in 1..Len(Head(map)[2]) |-> <<Head(map)[1], Head(map)[2][j]>>]
         \o PairsOf(Tail(map))

RECURSIVE BlocksOf(_)
\* the extracted blocks of the pairs, one after the other; a pair whose
\* file is missing or holds no definition of the name gives nothing
BlocksOf(pairs) ==
    IF pairs = <<>> THEN <<>>
    ELSE (IF Head(pairs)[1] \in DOMAIN fs
          THEN BlockUnder(read_lua_file(fs, Head(pairs)[1]),
                          TempFunc(Head(pairs)[2]), Head(pairs)[2])
          ELSE <<>>)
         \o BlocksOf(Tail(pairs))

\* C30: what generate_new_combine_lua appends to the output file is, in
\* this order: the begin delimiter, the extracted blocks (files in map
\* insertion order, functions in list order), the end delimiter, and the
\* target's source as one unmodified piece, with nothing but the closing
\* line break after it.
ClaimC30_BundleLayout ==
    [][(pc = "generate" /\ pc' = "written") =>
          (Appended = <<"\n", BeginMark, "\n", "\n">>
                      \o BlocksOf(PairsOf(extract_depen_obj))
                      \o <<"\n", "\n", EndMark, "\n", "\n", "\n">>
                      \o fs[Destination] \o <<"\n">>)]_vars

\* C30 witness: a first bundle was written from a map of several pairs and
\* holds two blocks before the end delimiter.
WitnessC30 ==
    /\ pc = "written" /\ runs = 1
    /\ Len(PairsOf(extract_depen_obj)) >= 2
    /\ NumBlocks(BlocksOf(PairsOf(extract_depen_obj))) >= 2
    /\ IsPrefix(<<"\n", BeginMark, "\n", "\n">>
                \o BlocksOf(PairsOf(extract_depen_obj)), fs[WritePath])

====
